---------------------------- MODULE Spec2Model ----------------------------
(***************************************************************************)
(* A model of the search and optimisation engine of the puzzle collection: *)
(* Tower of Hanoi, N-Queens, Knight's Tour, Traveling Salesman and the     *)
(* 5x5 four-in-a-row game.  Each game has its own variables and its own    *)
(* specification; a specification leaves the other games' variables alone. *)
(***************************************************************************)
EXTENDS Integers, Sequences, FiniteSets, TLC

VARIABLES
    \* ---- Tower of Hanoi (TowerOfHanoiGame) ----
    num_disks,       \* self.num_disks
    optimal_moves,   \* self.optimal_moves: the list a solver returned
    h_pc,            \* "idle" | "iter" | "done" | "raised"
    h_alg,           \* "none" | "recursive" | "iterative"
    h_state,         \* solve_iterative: local `state`, pegs 0..2, bottom first
    h_i,             \* solve_iterative: loop index i
    h_moves,         \* solve_iterative: local `moves`
    \* ---- N-Queens (EightQueensPuzzleGame.find_all_solutions_backtracking) ----
    q_size,          \* self.board_size
    q_board,         \* the board backtrack() places queens on, [row][col]
    q_stack,         \* the active calls of backtrack(): [col, row, at]
    q_solutions,     \* solutions
    q_pc,            \* "idle" | "run" | "done"
    \* ---- Knight's Tour (KnightsTourGame) ----
    k_size,            \* self.board_size
    start_position,    \* self.start_position
    k_gboard,          \* self.board: 0 or the number of the move that visited
    current_position,  \* self.current_position
    move_sequence,     \* self.move_sequence
    move_count,        \* self.move_count
    k_alg,             \* "none" | "backtracking" | "warnsdorff" | "neural"
    k_pc,              \* "idle" | "run" | "done" | "raised"
    k_board,           \* a solver's local board
    k_stack,           \* solve_backtracking: active calls of solve_util
    k_found,           \* solve_backtracking: solve_util returned True
    k_seq,             \* a greedy solver's local move_sequence
    k_result,          \* what the solver returned: a sequence or None
    k_steps,           \* loop passes of solve_util so far
    \* ---- Traveling Salesman (TravelingSalesmanGame) ----
    distances,         \* self.distances, [<<i, j>>]
    home_city,         \* self.home_city
    selected_cities,   \* self.selected_cities
    shortest_routes,   \* self.shortest_routes: algorithm name -> [route, distance]
    t_pc,              \* "idle" | "recon" | "done" | "raised"
    t_cities,          \* dynamic programming: local `cities`
    t_dp,              \* dynamic programming: the memo `dp`, (mask, pos) -> value
    min_distance,      \* dynamic programming: min_distance
    t_path,            \* dynamic programming: path
    t_mask,            \* dynamic programming: mask of the reconstruction
    t_pos,             \* dynamic programming: pos of the reconstruction
    t_round,           \* dynamic programming: passes of the reconstruction loop done
    \* ---- Tic-Tac-Toe (TicTacToeGame, MCTSNode) ----
    tt_board,          \* self.board, [<<row, col>>]: 1 human (X), -1 computer (O), 0 empty
    current_player,    \* self.current_player
    game_over,         \* self.game_over
    winner,            \* self.winner: None, or [none |-> FALSE, seq |-> <<w>>]
    tt_pc,             \* "idle" | "minimax" | "mcts" | "done" | "raised"
    tt_move,           \* what minimax_move or mcts_move returned
    tt_moves,          \* minimax_move: available_moves
    tt_scores,         \* minimax_move: the scores of the moves tried so far
    tt_nodes,          \* mcts_move: the MCTSNode objects, root first
    tt_sel,            \* select_node: its argument `node`, an index of tt_nodes
    tt_iter,           \* mcts_move: passes of the iteration loop done
    tt_win,            \* the last call of check_win_board: [called, value]
    \* ---- verify_solution(moves) of the Knight's Tour and the Tower of Hanoi ----
    v_moves,           \* the argument `moves`
    v_result,          \* what the call returned: [called, is_valid, message]
    \* ---- Tower of Hanoi played by hand: make_move ----
    self_pegs,         \* self.pegs: the three pegs, bottom disk first
    self_moves,        \* self.moves: the (source, dest) pairs made so far
    source_var,        \* the peg selected in the From box
    dest_var,          \* the peg selected in the To box
    h_shown,           \* title of the box the last make_move showed, "" for none
    \* ---- Tic-Tac-Toe played through the window: clicks, timers, New Game ----
    algorithm,         \* self.algorithm
    tt_pending,        \* computer_move callbacks scheduled with root.after and not yet run
    tt_event,          \* the handler that ran last, and the cell it was given
    tt_marks,          \* the marks written to the board since the game began, in order
    \* ---- ordered_crossover(parent1, parent2) and its random cut ----
    x_parent1,         \* parent1
    x_parent2,         \* parent2
    x_cut,             \* (start, end) = sorted(random.sample(range(size), 2)), <<>> before the call
    x_child,           \* what the call returned: None before the call, the child after it
    \* ---- N-Queens: find_all_solutions_genetic ----
    ga_population,     \* population: the individuals, each the row of the queen in every column
    ga_gen,            \* generations completed
    ga_best,           \* best_solutions: boards
    ga_pc,             \* position in find_all_solutions_genetic
    \* ---- Travelling Salesman: find_shortest_route_genetic_algorithm ----
    tg_population,     \* population: routes over the selected cities
    tg_gen,            \* generations completed
    tg_pc,             \* position in find_shortest_route_genetic_algorithm
    \* ---- Tic-Tac-Toe: one call of minimax, statement by statement ----
    s_root,            \* self.board when minimax_move calls minimax
    s_board,           \* self.board during the call
    s_stack,           \* the active calls of minimax, the innermost last
    s_ret,             \* the value the last finished call returned
    s_cuts,            \* how often `break` has been executed
    s_pc,              \* off, run, done
    \* ---- Travelling Salesman played through the window ----
    city_vars,         \* the cities whose checkbox is ticked
    user_route,        \* self.user_route
    tp_basis,          \* the selection, home city and matrix the stored routes were computed for
    tp_event           \* what the last handler did

hanoiVars == <<num_disks, optimal_moves, h_pc, h_alg, h_state, h_i, h_moves>>

queensVars == <<q_size, q_board, q_stack, q_solutions, q_pc>>

knightVars == <<k_size, start_position, k_gboard, current_position,
                move_sequence, move_count, k_alg, k_pc, k_board, k_stack,
                k_found, k_seq, k_result, k_steps>>

tspVars == <<distances, home_city, selected_cities, shortest_routes, t_pc,
      t_cities, t_dp, min_distance, t_path, t_mask, t_pos, t_round>>

ticVars == <<tt_board, current_player, game_over, winner, tt_pc, tt_move,
      tt_moves, tt_scores, tt_nodes, tt_sel, tt_iter, tt_win>>

verifyVars == <<v_moves, v_result>>

hanoiPlayVars == <<self_pegs, self_moves, source_var, dest_var, h_shown>>

ticPlayVars == <<algorithm, tt_pending, tt_event, tt_marks>>

crossVars == <<x_parent1, x_parent2, x_cut, x_child>>

queensGaVars == <<ga_population, ga_gen, ga_best, ga_pc>>

tspGaVars == <<tg_population, tg_gen, tg_pc>>

searchVars == <<s_root, s_board, s_stack, s_ret, s_cuts, s_pc>>

tspPlayVars == <<city_vars, user_route, tp_basis, tp_event>>

vars == <<hanoiVars, queensVars, knightVars, tspVars, ticVars,
      verifyVars, hanoiPlayVars, ticPlayVars, crossVars,
      queensGaVars, tspGaVars, searchVars, tspPlayVars>>

notHanoi == <<queensVars, knightVars, tspVars, ticVars, verifyVars,
      hanoiPlayVars, ticPlayVars, crossVars, queensGaVars,
      tspGaVars, searchVars, tspPlayVars>>

notQueens == <<hanoiVars, knightVars, tspVars, ticVars, verifyVars,
      hanoiPlayVars, ticPlayVars, crossVars, queensGaVars,
      tspGaVars, searchVars, tspPlayVars>>

notKnight == <<hanoiVars, queensVars, tspVars, ticVars, verifyVars,
      hanoiPlayVars, ticPlayVars, crossVars, queensGaVars,
      tspGaVars, searchVars, tspPlayVars>>

notTsp == <<hanoiVars, queensVars, knightVars, ticVars, verifyVars,
      hanoiPlayVars, ticPlayVars, crossVars, queensGaVars,
      tspGaVars, searchVars, tspPlayVars>>

notTic == <<hanoiVars, queensVars, knightVars, tspVars, verifyVars,
      hanoiPlayVars, ticPlayVars, crossVars, queensGaVars,
      tspGaVars, searchVars, tspPlayVars>>

notVerify == <<hanoiVars, queensVars, knightVars, tspVars, ticVars,
      hanoiPlayVars, ticPlayVars, crossVars, queensGaVars,
      tspGaVars, searchVars, tspPlayVars>>

notHanoiPlay == <<hanoiVars, queensVars, knightVars, tspVars, ticVars,
      verifyVars, ticPlayVars, crossVars, queensGaVars, tspGaVars,
      searchVars, tspPlayVars>>

notTicPlay == <<hanoiVars, queensVars, knightVars, tspVars, ticVars,
      verifyVars, hanoiPlayVars, crossVars, queensGaVars,
      tspGaVars, searchVars, tspPlayVars>>

\* everything but the Tic-Tac-Toe game and its window
notTicGame == <<hanoiVars, queensVars, knightVars, tspVars, verifyVars,
      hanoiPlayVars, crossVars, queensGaVars, tspGaVars,
      searchVars, tspPlayVars>>

\* everything but the Travelling Salesman game and its genetic solver
notTspGame == <<hanoiVars, queensVars, knightVars, ticVars, verifyVars,
      hanoiPlayVars, ticPlayVars, crossVars, queensGaVars,
      searchVars, tspPlayVars>>

\* everything but the Travelling Salesman game and its window
notTspWindow == <<hanoiVars, queensVars, knightVars, ticVars, verifyVars, hanoiPlayVars,
      ticPlayVars, crossVars, queensGaVars, searchVars, tspGaVars>>

notCross == <<hanoiVars, queensVars, knightVars, tspVars, ticVars,
      verifyVars, hanoiPlayVars, ticPlayVars, queensGaVars,
      tspGaVars, searchVars, tspPlayVars>>

notQueensGa == <<hanoiVars, queensVars, knightVars, tspVars, ticVars,
      verifyVars, hanoiPlayVars, ticPlayVars, crossVars, tspGaVars,
      searchVars, tspPlayVars>>

notTspGa == <<hanoiVars, queensVars, knightVars, tspVars, ticVars,
      verifyVars, hanoiPlayVars, ticPlayVars, crossVars,
      queensGaVars, searchVars, tspPlayVars>>

notSearch == <<hanoiVars, queensVars, knightVars, tspVars, ticVars,
      verifyVars, hanoiPlayVars, ticPlayVars, crossVars,
      queensGaVars, tspGaVars, tspPlayVars>>

notTspPlay == <<hanoiVars, queensVars, knightVars, tspVars, ticVars,
      verifyVars, hanoiPlayVars, ticPlayVars, crossVars,
      queensGaVars, tspGaVars, searchVars>>

\* a value that is either Python's None or a list
None == [none |-> TRUE, seq |-> <<>>]

Some(seq) == [none |-> FALSE, seq |-> seq]

-----------------------------------------------------------------------------
(* Helpers shared by the games *)

Last(s) == s[Len(s)]

Front(s) == SubSeq(s, 1, Len(s) - 1)

RECURSIVE Pow2(_)
Pow2(k) == IF k = 0 THEN 1 ELSE 2 * Pow2(k - 1)

Min(S) == CHOOSE x \in S : \A y \in S : x <= y

Max(S) == CHOOSE x \in S : \A y \in S : x >= y

-----------------------------------------------------------------------------
(* The variables of a game while another game is modelled *)

HanoiIdle ==
    /\ num_disks = 0
    /\ optimal_moves = <<>>
    /\ h_pc = "off"
    /\ h_alg = "none"
    /\ h_state = <<>>
    /\ h_i = 0
    /\ h_moves = <<>>

QueensIdle ==
    /\ q_size = 0
    /\ q_board = <<>>
    /\ q_stack = <<>>
    /\ q_solutions = <<>>
    /\ q_pc = "off"

KnightIdle ==
    /\ k_size = 0
    /\ start_position = <<0, 0>>
    /\ k_gboard = <<>>
    /\ current_position = <<0, 0>>
    /\ move_sequence = <<>>
    /\ move_count = 0
    /\ k_alg = "none"
    /\ k_pc = "off"
    /\ k_board = <<>>
    /\ k_stack = <<>>
    /\ k_found = FALSE
    /\ k_seq = <<>>
    /\ k_result = None
    /\ k_steps = 0

TspIdle ==
    /\ distances = <<>>
    /\ home_city = ""
    /\ selected_cities = <<>>
    /\ shortest_routes = <<>>
    /\ t_pc = "off"
    /\ t_cities = <<>>
    /\ t_dp = <<>>
    /\ min_distance = 0
    /\ t_path = <<>>
    /\ t_mask = 0
    /\ t_pos = 0
    /\ t_round = 0

TicIdle ==
    /\ tt_board = <<>>
    /\ current_player = 0
    /\ game_over = FALSE
    /\ winner = None
    /\ tt_pc = "off"
    /\ tt_move = None
    /\ tt_moves = <<>>
    /\ tt_scores = <<>>
    /\ tt_nodes = <<>>
    /\ tt_sel = 0
    /\ tt_iter = 0
    /\ tt_win = [called |-> FALSE, value |-> FALSE]

VerifyIdle ==
    /\ v_moves = <<>>
    /\ v_result = [called |-> FALSE, is_valid |-> FALSE, message |-> ""]

HanoiPlayIdle ==
    /\ self_pegs = <<>>
    /\ self_moves = <<>>
    /\ source_var = ""
    /\ dest_var = ""
    /\ h_shown = ""

TicPlayIdle ==
    /\ algorithm = ""
    /\ tt_pending = 0
    /\ tt_event = [op |-> "", cell |-> <<0, 0>>]
    /\ tt_marks = <<>>

CrossIdle ==
    /\ x_parent1 = <<>>
    /\ x_parent2 = <<>>
    /\ x_cut = <<>>
    /\ x_child = None

QueensGaIdle ==
    /\ ga_population = <<>>
    /\ ga_gen = 0
    /\ ga_best = <<>>
    /\ ga_pc = "off"

TspGaIdle ==
    /\ tg_population = <<>>
    /\ tg_gen = 0
    /\ tg_pc = "off"

SearchIdle ==
    /\ s_root = <<>>
    /\ s_board = <<>>
    /\ s_stack = <<>>
    /\ s_ret = 0
    /\ s_cuts = 0
    /\ s_pc = "off"

TspPlayIdle ==
    /\ city_vars = {}
    /\ user_route = <<>>
    /\ tp_basis = <<>>
    /\ tp_event = ""

-----------------------------------------------------------------------------
(* Tower of Hanoi *)

\* Largest disk count the model runs (the game draws 5..10).
MaxDisks == 10

\* [list(range(num_disks, 0, -1)), [], []]
InitialPegs(n) == [j \in 0..2 |-> IF j = 0 THEN [k \in 1..n |-> n + 1 - k] ELSE <<>>]

\* disk = pegs[source_idx].pop(); pegs[dest_idx].append(disk)
MoveDisk(st, src, dst) ==
    LET disk == Last(st[src])
        popped == [st EXCEPT ![src] = Front(st[src])]
    IN  [popped EXCEPT ![dst] = Append(popped[dst], disk)]

\* solve_recursive: hanoi(n, source, auxiliary, destination)
RECURSIVE hanoi(_, _, _, _)
\* the same with the first recursive call made on the pegs as they stand
hanoi_first_call_unswapped(n, source, auxiliary, destination) ==
    IF n > 0
    THEN hanoi(n - 1, source, auxiliary, destination)
         \o <<<<source, destination>>>>
         \o hanoi(n - 1, auxiliary, source, destination)
    ELSE <<>>

hanoi(n, source, auxiliary, destination) ==
    IF n > 0
    THEN hanoi(n - 1, source, destination, auxiliary)
         \o <<<<source, destination>>>>
         \o hanoi(n - 1, auxiliary, source, destination)
    ELSE <<>>

solve_recursive(n) == hanoi(n, "A", "B", "C")

\* solve_iterative: the peg names by parity of num_disks
IterPegsNoParity(n) == [j \in 0..2 |-> <<"A", "B", "C">>[j + 1]]

IterPegs(n) ==
    IF n % 2 = 0
    THEN [j \in 0..2 |-> <<"A", "B", "C">>[j + 1]]
    ELSE [j \in 0..2 |-> <<"A", "C", "B">>[j + 1]]

\* pegs whose top disk is the smallest disk
SmallestOnTop(st) == {j \in 0..2 : st[j] # <<>> /\ Last(st[j]) = 1}

\* smallest_visible: (top disk, peg) of every non-empty peg
SmallestVisible(st) == {<<Last(st[j]), j>> : j \in {k \in 0..2 : st[k] # <<>>}}

\* smallest_visible.sort(); smallest_visible[k] (k from 0)
SortedAt(S, k) == CHOOSE e \in S : Cardinality({f \in S : f[1] < e[1]}) = k

\* for dest_idx in range(3): if <allowed>: if <legal>: break
\* (the loop variable keeps its last value, 2, when nothing breaks)
IterDest(st, source_idx, excluded) ==
    LET ok == {d \in 0..2 :
                 /\ d # source_idx
                 /\ d \notin excluded
                 /\ (st[d] = <<>> \/ Last(st[source_idx]) < Last(st[d]))}
    IN  IF ok # {} THEN Min(ok) ELSE 2

\* One iteration of solve_iterative's loop: <<source_idx, dest_idx>>
IterChoice(st, i) ==
    IF i % 2 = 0
    THEN LET source_idx == Min(SmallestOnTop(st))
         IN  <<source_idx, (source_idx + 1) % 3>>
    ELSE LET sv == SmallestVisible(st)
         IN  IF Cardinality(sv) > 1
             THEN LET source_idx == SortedAt(sv, 1)[2]
                      smallest_disk_idx == Min(SmallestOnTop(st))
                  IN  <<source_idx, IterDest(st, source_idx, {smallest_disk_idx})>>
             ELSE LET source_idx == SortedAt(sv, 0)[2]
                  IN  <<source_idx, IterDest(st, source_idx, {})>>

HanoiInit ==
    /\ num_disks \in 1..MaxDisks
    /\ optimal_moves = <<>>
    /\ h_pc = "idle"
    /\ h_alg = "none"
    /\ h_state = InitialPegs(0)
    /\ h_i = 0
    /\ h_moves = <<>>
    /\ QueensIdle /\ KnightIdle /\ TspIdle /\ TicIdle /\ VerifyIdle /\ HanoiPlayIdle /\ TicPlayIdle /\ CrossIdle /\ QueensGaIdle /\ TspGaIdle /\ SearchIdle /\ TspPlayIdle

\* show_solution("recursive"): self.optimal_moves = solve_recursive()
SolveRecursive ==
    /\ h_pc = "idle"
    /\ optimal_moves' = solve_recursive(num_disks)
    /\ h_alg' = "recursive"
    /\ h_pc' = "done"
    /\ UNCHANGED <<num_disks, h_state, h_i, h_moves>>
    /\ UNCHANGED notHanoi

\* show_solution("iterative"): entry of solve_iterative
IterBegin ==
    /\ h_pc = "idle"
    /\ h_alg' = "iterative"
    /\ h_state' = InitialPegs(num_disks)
    /\ h_i' = 0
    /\ h_moves' = <<>>
    /\ h_pc' = "iter"
    /\ UNCHANGED <<num_disks, optimal_moves>>
    /\ UNCHANGED notHanoi

\* one pass of `for i in range(total_moves)`
IterStep ==
    /\ h_pc = "iter"
    /\ h_i < Pow2(num_disks) - 1
    /\ IF SmallestOnTop(h_state) = {}
       THEN \* next(...) finds no peg: StopIteration
            /\ h_pc' = "raised"
            /\ UNCHANGED <<h_state, h_i, h_moves>>
       ELSE LET c == IterChoice(h_state, h_i)
                pegs == IterPegs(num_disks)
            IN  /\ h_state' = MoveDisk(h_state, c[1], c[2])
                /\ h_moves' = Append(h_moves, <<pegs[c[1]], pegs[c[2]]>>)
                /\ h_i' = h_i + 1
                /\ h_pc' = "iter"
    /\ UNCHANGED <<num_disks, optimal_moves, h_alg>>
    /\ UNCHANGED notHanoi

\* return moves
IterReturn ==
    /\ h_pc = "iter"
    /\ h_i = Pow2(num_disks) - 1
    /\ optimal_moves' = h_moves
    /\ h_pc' = "done"
    /\ UNCHANGED <<num_disks, h_alg, h_state, h_i, h_moves>>
    /\ UNCHANGED notHanoi

HanoiNext == SolveRecursive \/ IterBegin \/ IterStep \/ IterReturn

SpecHanoi == HanoiInit /\ [][HanoiNext]_vars

-----------------------------------------------------------------------------
(* Replaying a move list against a fresh peg state *)

PegIndex(name) == CHOOSE j \in 0..2 : <<"A", "B", "C">>[j + 1] = name

\* Applying one move to a replay [legal, pegs]: legal turns FALSE, for good,
\* once a move takes from an empty peg or puts a larger disk on a smaller one.
ReplayMove(st, move) ==
    IF ~st.legal THEN st
    ELSE LET s == PegIndex(move[1])
             d == PegIndex(move[2])
         IN  IF st.pegs[s] = <<>> THEN [st EXCEPT !.legal = FALSE]
             ELSE IF st.pegs[d] # <<>> /\ Last(st.pegs[s]) > Last(st.pegs[d])
                  THEN [st EXCEPT !.legal = FALSE]
             ELSE [st EXCEPT !.pegs = MoveDisk(st.pegs, s, d)]

\* The replay after moves lo..hi in order (split in halves to keep the
\* evaluation shallow).
RECURSIVE ReplayRange(_, _, _, _)
ReplayRange(st, moves, lo, hi) ==
    IF lo > hi THEN st
    ELSE IF lo = hi THEN ReplayMove(st, moves[lo])
    ELSE LET mid == (lo + hi) \div 2
             left == ReplayRange(st, moves, lo, mid)
         IN  IF left.legal THEN ReplayRange(left, moves, mid + 1, hi) ELSE left

Replay(n, moves) ==
    ReplayRange([legal |-> TRUE, pegs |-> InitialPegs(n)], moves, 1, Len(moves))

AllOnC(n) == [j \in 0..2 |-> IF j = 2 THEN [k \in 1..n |-> n + 1 - k] ELSE <<>>]

\* C1: a solver that has returned gave 2^n - 1 moves whose replay from the
\* initial pegs is legal at every step and ends with all n disks on peg C.
C1_SolversSolve ==
    h_pc = "done" =>
        /\ Len(optimal_moves) = Pow2(num_disks) - 1
        /\ Replay(num_disks, optimal_moves).legal
        /\ Replay(num_disks, optimal_moves).pegs = AllOnC(num_disks)

C1_Witness == h_pc = "done" /\ h_alg = "iterative" /\ num_disks = 5

-----------------------------------------------------------------------------
(* N-Queens: find_all_solutions_backtracking *)

\* self.board_size
QueensBoardSize == 8

\* np.zeros((board_size, board_size), dtype=int), indexed [row][col]
ZeroBoard(n) == [i \in 0..(n - 1) |-> [j \in 0..(n - 1) |-> 0]]

SmallerOf(a, b) == IF a <= b THEN a ELSE b

\* is_safe without the lower diagonal
is_safe_no_lower(board, n, row, col) ==
    /\ \A j \in 0..(col - 1) : board[row][j] # 1
    /\ \A k \in 0..SmallerOf(row, col) : board[row - k][col - k] # 1

\* is_safe(board, row, col): the row to the left, then
\* zip(range(row, -1, -1), range(col, -1, -1)), then
\* zip(range(row, board_size), range(col, -1, -1))
is_safe(board, n, row, col) ==
    /\ \A j \in 0..(col - 1) : board[row][j] # 1
    /\ \A k \in 0..SmallerOf(row, col) : board[row - k][col - k] # 1
    /\ \A k \in 0..SmallerOf(n - 1 - row, col) : board[row + k][col - k] # 1

QTop == q_stack[Len(q_stack)]

QueensInit ==
    /\ q_size \in 1..QueensBoardSize
    /\ q_board = <<>>
    /\ q_stack = <<>>
    /\ q_solutions = <<>>
    /\ q_pc = "idle"
    /\ HanoiIdle /\ KnightIdle /\ TspIdle /\ TicIdle /\ VerifyIdle /\ HanoiPlayIdle /\ TicPlayIdle /\ CrossIdle /\ QueensGaIdle /\ TspGaIdle /\ SearchIdle /\ TspPlayIdle

\* solutions = []; board = np.zeros(...); backtrack(board, 0)
QueensBegin ==
    /\ q_pc = "idle"
    /\ q_board' = ZeroBoard(q_size)
    /\ q_solutions' = <<>>
    /\ q_stack' = <<[col |-> 0, row |-> 0, at |-> "enter"]>>
    /\ q_pc' = "run"
    /\ UNCHANGED <<q_size, notQueens>>

\* backtrack: if col >= self.board_size: solutions.append(board.copy()); return
QueensRecord ==
    /\ q_pc = "run" /\ q_stack # <<>>
    /\ QTop.at = "enter"
    /\ QTop.col >= q_size
    /\ q_solutions' = Append(q_solutions, q_board)
    /\ q_stack' = Front(q_stack)
    /\ UNCHANGED <<q_size, q_board, q_pc, notQueens>>

\* backtrack: one pass of `for row in range(self.board_size)` up to the
\* recursive call
QueensTry ==
    /\ q_pc = "run" /\ q_stack # <<>>
    /\ QTop.at \in {"enter", "loop"}
    /\ QTop.col < q_size
    /\ QTop.row < q_size
    /\ IF is_safe(q_board, q_size, QTop.row, QTop.col)
       THEN /\ q_board' = [q_board EXCEPT ![QTop.row][QTop.col] = 1]
            /\ q_stack' = Append([q_stack EXCEPT ![Len(q_stack)].at = "called"],
                                 [col |-> QTop.col + 1, row |-> 0, at |-> "enter"])
       ELSE /\ q_board' = q_board
            /\ q_stack' = [q_stack EXCEPT ![Len(q_stack)] =
                              [col |-> QTop.col, row |-> QTop.row + 1, at |-> "loop"]]
    /\ UNCHANGED <<q_size, q_solutions, q_pc, notQueens>>

\* a backtrack that leaves the queen where it is
QueensUndoKeepsQueen ==
    /\ q_pc = "run" /\ q_stack # <<>>
    /\ QTop.at = "called"
    /\ q_stack' = [q_stack EXCEPT ![Len(q_stack)] =
                      [col |-> QTop.col, row |-> QTop.row + 1, at |-> "loop"]]
    /\ UNCHANGED <<q_size, q_board, q_solutions, q_pc, notQueens>>

\* backtrack: after the recursive call returned: board[row, col] = 0
QueensUndo ==
    /\ q_pc = "run" /\ q_stack # <<>>
    /\ QTop.at = "called"
    /\ q_board' = [q_board EXCEPT ![QTop.row][QTop.col] = 0]
    /\ q_stack' = [q_stack EXCEPT ![Len(q_stack)] =
                      [col |-> QTop.col, row |-> QTop.row + 1, at |-> "loop"]]
    /\ UNCHANGED <<q_size, q_solutions, q_pc, notQueens>>

\* backtrack: the loop is exhausted, the call returns
QueensReturn ==
    /\ q_pc = "run" /\ q_stack # <<>>
    /\ QTop.at \in {"enter", "loop"}
    /\ QTop.col < q_size
    /\ QTop.row >= q_size
    /\ q_stack' = Front(q_stack)
    /\ UNCHANGED <<q_size, q_board, q_solutions, q_pc, notQueens>>

\* find_all_solutions_backtracking: return solutions
QueensDone ==
    /\ q_pc = "run" /\ q_stack = <<>>
    /\ q_pc' = "done"
    /\ UNCHANGED <<q_size, q_board, q_stack, q_solutions, notQueens>>

QueensNext ==
    \/ QueensBegin \/ QueensRecord \/ QueensTry
    \/ QueensUndo \/ QueensReturn \/ QueensDone

SpecQueens == QueensInit /\ [][QueensNext]_vars

-----------------------------------------------------------------------------
(* N-Queens placements, stated independently of the search *)

QueenCells(b, n) == {c \in (0..(n - 1)) \X (0..(n - 1)) : b[c[1]][c[2]] = 1}

Abs(x) == IF x < 0 THEN -x ELSE x

Attack(c, d) ==
    \/ c[1] = d[1]
    \/ c[2] = d[2]
    \/ Abs(c[1] - d[1]) = Abs(c[2] - d[2])

\* n queens, no two sharing a row, a column or a diagonal
IsPlacement(b, n) ==
    /\ \A i \in 0..(n - 1) : \A j \in 0..(n - 1) : b[i][j] \in {0, 1}
    /\ Cardinality(QueenCells(b, n)) = n
    /\ \A c \in QueenCells(b, n) : \A d \in QueenCells(b, n) :
          c # d => ~Attack(c, d)

\* All orderings of the rows 0..n-1 over the columns 1..k
RECURSIVE RowOrders(_, _)
RowOrders(n, k) ==
    IF k = 0 THEN {<<>>}
    ELSE {Append(p, r) : <<p, r>> \in
            {pr \in RowOrders(n, k - 1) \X (0..(n - 1)) :
                \A j \in 1..(k - 1) : pr[1][j] # pr[2]}}

\* Every placement has one queen per column and per row: the row orders
\* without a shared diagonal, as boards.
AllPlacements(n) ==
    {[i \in 0..(n - 1) |-> [j \in 0..(n - 1) |-> IF p[j + 1] = i THEN 1 ELSE 0]] :
        p \in {q \in RowOrders(n, n) :
                 \A a \in 1..n : \A c \in 1..n :
                    a < c => Abs(q[a] - q[c]) # c - a}}

SolutionSet == {q_solutions[k] : k \in 1..Len(q_solutions)}

\* C2: the search returns every N-queens placement exactly once and nothing
\* else; on the 8x8 board these are 92 boards.
C2_AllPlacementsOnce ==
    q_pc = "done" =>
        /\ \A k \in 1..Len(q_solutions) : IsPlacement(q_solutions[k], q_size)
        /\ Cardinality(SolutionSet) = Len(q_solutions)
        /\ SolutionSet = AllPlacements(q_size)
        /\ (q_size = 8 => Len(q_solutions) = 92)

C2_Witness == q_pc = "done" /\ q_size = 6 /\ Len(q_solutions) = 4

\* the cells where the active calls of backtrack have put a queen and are
\* waiting for their recursive call
PlacedByCalls ==
    {<<q_stack[d].row, q_stack[d].col>> :
        d \in {e \in 1..Len(q_stack) : q_stack[e].at = "called"}}

\* no two queens of the board share a row, a column or a diagonal
NoTwoAttack(board, n) ==
    \A c \in QueenCells(board, n) : \A d \in QueenCells(board, n) :
        c # d =>
            /\ c[1] # d[1] /\ c[2] # d[2]
            /\ Abs(c[1] - d[1]) # Abs(c[2] - d[2])

\* C30: at every entry to backtrack(board, col) the board holds exactly col
\* queens, one in each of the columns 0..col-1 and none elsewhere, no two
\* attacking each other; every call returns with the board as it was on
\* entry (the board always holds exactly the queens of the calls that are
\* waiting for their recursive call, so it is the same before a call and
\* after it), and the board is empty when the search ends.
C30_BacktrackBoardMatchesCalls ==
    /\ q_pc = "run" =>
          /\ QueenCells(q_board, q_size) = PlacedByCalls
          /\ \A i \in 0..(q_size - 1) : \A j \in 0..(q_size - 1) :
                q_board[i][j] \in {0, 1}
    /\ (q_pc = "run" /\ q_stack # <<>> /\ QTop.at = "enter") =>
          /\ Cardinality(QueenCells(q_board, q_size)) = QTop.col
          /\ {c[2] : c \in QueenCells(q_board, q_size)} = 0..(QTop.col - 1)
          /\ NoTwoAttack(q_board, q_size)
    /\ ((q_pc = "run" /\ q_stack = <<>>) \/ q_pc = "done") =>
          q_board = ZeroBoard(q_size)

\* backtrack was entered with all eight queens on the board
C30_Witness ==
    /\ q_pc = "run" /\ q_stack # <<>> /\ QTop.at = "enter"
    /\ q_size = 8 /\ QTop.col = 8
    /\ Len(q_solutions) = 5

-----------------------------------------------------------------------------
(* Knight's Tour *)

\* self.board_size
KnightBoardSize == 8

\* Largest board solve_backtracking is run on.
MaxBacktrackSize == 5

\* Loop passes of solve_util after which the model stops following a search.
MaxSteps == 20000

\* Boards with at most this many cells have every sequence of clicks modelled.
MaxWalkCells == 16

Cells(n) == (0..(n - 1)) \X (0..(n - 1))

\* np.zeros((board_size, board_size), dtype=int), indexed [<<row, col>>]
KZero(n) == [c \in Cells(n) |-> 0]

move_x == <<2, 1, -1, -2, -2, -1, 1, 2>>

move_y == <<1, 2, 2, 1, -1, -2, -2, -1>>

\* (curr_x + move_x[i], curr_y + move_y[i]), i from 0
KStep(c, i) == <<c[1] + move_x[i + 1], c[2] + move_y[i + 1]>>

\* the bounds test alone, visited cells included
KFreeRevisit(board, n, c) ==
    /\ 0 <= c[1] /\ c[1] < n
    /\ 0 <= c[2] /\ c[2] < n

\* 0 <= next_x < size and 0 <= next_y < size and board[next_x, next_y] == 0
KFree(board, n, c) ==
    /\ 0 <= c[1] /\ c[1] < n
    /\ 0 <= c[2] /\ c[2] < n
    /\ board[c] = 0

\* initialize_board / reset_board: the game board with the knight on its start
FreshBoard(n, start) == [KZero(n) EXCEPT ![start] = 1]

\* show_solution, after the solver returned: `if move_sequence:` resets the
\* board and writes the moves; None shows an error box and changes nothing.
ShowResult(result) ==
    IF result # None /\ result.seq # <<>>
    THEN /\ k_gboard' =
              [c \in Cells(k_size) |->
                 LET at == {i \in 1..Len(result.seq) : result.seq[i] = c}
                 IN  IF at # {} THEN Max(at)
                     ELSE IF c = start_position THEN 1 ELSE 0]
         /\ current_position' = Last(result.seq)
         /\ move_sequence' = <<start_position>> \o result.seq
         /\ move_count' = Len(result.seq)
    ELSE UNCHANGED <<k_gboard, current_position, move_sequence, move_count>>

KnightInit ==
    /\ k_size \in 1..KnightBoardSize
    /\ start_position \in Cells(k_size)
    /\ k_gboard = FreshBoard(k_size, start_position)
    /\ current_position = start_position
    /\ move_sequence = <<start_position>>
    /\ move_count = 1
    /\ k_alg = "none"
    /\ k_pc = "idle"
    /\ k_board = <<>>
    /\ k_stack = <<>>
    /\ k_found = FALSE
    /\ k_seq = <<>>
    /\ k_result = None
    /\ k_steps = 0
    /\ HanoiIdle /\ QueensIdle /\ TspIdle /\ TicIdle /\ VerifyIdle /\ HanoiPlayIdle /\ TicPlayIdle /\ CrossIdle /\ QueensGaIdle /\ TspGaIdle /\ SearchIdle /\ TspPlayIdle

gameFields == <<k_gboard, current_position, move_sequence, move_count>>

\* show_solution: entry of the selected solver.  The solvers read only
\* board_size and start_position, so they are followed from the fresh board.
KnightBegin(alg) ==
    /\ k_pc = "idle"
    /\ move_count = 1
    /\ alg = "backtracking" => k_size <= MaxBacktrackSize
    /\ k_alg' = alg
    /\ k_pc' = "run"
    /\ k_board' = [KZero(k_size) EXCEPT ![start_position] = 1]
    /\ k_stack' = IF alg = "backtracking"
                  THEN <<[pos |-> start_position, mc |-> 1, i |-> 0, at |-> "enter"]>>
                  ELSE <<>>
    /\ k_seq' = IF alg = "backtracking" THEN <<>> ELSE <<start_position>>
    /\ UNCHANGED <<k_size, start_position, gameFields, k_found, k_result,
                   k_steps, notKnight>>

KTop == k_stack[Len(k_stack)]

BtRunning == k_pc = "run" /\ k_alg = "backtracking" /\ k_stack # <<>>

\* a base case that is one move late
solve_util_done_late(mc, n) == mc = n * n + 1

\* solve_util: if move_count == board_size * board_size: return True
\* (every caller then returns True at once)
solve_util_done(mc, n) == mc = n * n

BtSolved ==
    /\ BtRunning
    /\ KTop.at = "enter"
    /\ solve_util_done(KTop.mc, k_size)
    /\ k_found' = TRUE
    /\ k_stack' = <<>>
    /\ UNCHANGED <<k_size, start_position, gameFields, k_alg, k_pc, k_board,
                   k_seq, k_result, k_steps, notKnight>>

\* solve_util: one pass of `for i in range(8)` up to the recursive call
BtTry ==
    /\ BtRunning
    /\ KTop.at \in {"enter", "loop"}
    /\ ~solve_util_done(KTop.mc, k_size)
    /\ KTop.i < 8
    /\ k_steps < MaxSteps
    /\ k_steps' = k_steps + 1
    /\ LET nxt == KStep(KTop.pos, KTop.i)
       IN  IF KFree(k_board, k_size, nxt)
           THEN /\ k_board' = [k_board EXCEPT ![nxt] = KTop.mc + 1]
                /\ k_stack' = Append([k_stack EXCEPT ![Len(k_stack)].at = "called"],
                                     [pos |-> nxt, mc |-> KTop.mc + 1, i |-> 0,
                                      at |-> "enter"])
           ELSE /\ k_board' = k_board
                /\ k_stack' = [k_stack EXCEPT ![Len(k_stack)] =
                                  [pos |-> KTop.pos, mc |-> KTop.mc,
                                   i |-> KTop.i + 1, at |-> "loop"]]
    /\ UNCHANGED <<k_size, start_position, gameFields, k_alg, k_pc, k_found,
                   k_seq, k_result, notKnight>>

\* solve_util: the recursive call returned False: board[next_x, next_y] = 0
BtUndo ==
    /\ BtRunning
    /\ KTop.at = "called"
    /\ k_board' = [k_board EXCEPT ![KStep(KTop.pos, KTop.i)] = 0]
    /\ k_stack' = [k_stack EXCEPT ![Len(k_stack)] =
                      [pos |-> KTop.pos, mc |-> KTop.mc, i |-> KTop.i + 1,
                       at |-> "loop"]]
    /\ UNCHANGED <<k_size, start_position, gameFields, k_alg, k_pc, k_found,
                   k_seq, k_result, k_steps, notKnight>>

\* solve_util: all eight offsets tried: return False
BtReturnFalse ==
    /\ BtRunning
    /\ KTop.at \in {"enter", "loop"}
    /\ ~solve_util_done(KTop.mc, k_size)
    /\ KTop.i >= 8
    /\ k_stack' = Front(k_stack)
    /\ UNCHANGED <<k_size, start_position, gameFields, k_alg, k_pc, k_board,
                   k_found, k_seq, k_result, k_steps, notKnight>>

\* np.where(board == move_num): the matching cells
CellsNumbered(board, n, m) == {c \in Cells(n) : board[c] = m}

\* (pos[0][0], pos[1][0]): the first match in row-major order
FirstNumbered(board, n, m) ==
    CHOOSE c \in CellsNumbered(board, n, m) :
        \A d \in CellsNumbered(board, n, m) : c[1] * n + c[2] <= d[1] * n + d[2]

\* solve_backtracking after solve_util returned: the board as a move
\* sequence, or None; show_solution then displays it
BtFinish ==
    /\ k_pc = "run" /\ k_alg = "backtracking" /\ k_stack = <<>>
    /\ IF k_found
       THEN IF \A m \in 1..(k_size * k_size) : CellsNumbered(k_board, k_size, m) # {}
            THEN LET seq == [m \in 1..(k_size * k_size) |->
                               FirstNumbered(k_board, k_size, m)]
                 IN  /\ k_result' = Some(seq)
                     /\ k_pc' = "done"
                     /\ ShowResult(Some(seq))
            ELSE \* pos[0][0] on an empty match: IndexError
                 /\ k_pc' = "raised"
                 /\ UNCHANGED <<k_result, gameFields>>
       ELSE /\ k_result' = None
            /\ k_pc' = "done"
            /\ ShowResult(None)
    /\ UNCHANGED <<k_size, start_position, k_alg, k_board, k_stack, k_found,
                   k_seq, k_steps, notKnight>>

\* the offsets i whose target is on the board and not visited
KCandidates(board, n, cur) == {i \in 0..7 : KFree(board, n, KStep(cur, i))}

\* count_empty_neighbors(x, y)
count_empty_neighbors(board, n, c) ==
    Cardinality({i \in 0..7 : KFree(board, n, KStep(c, i))})

\* solve_warnsdorff: min_deg_idx, the first offset of least degree
MinDegIdx(board, n, cur) ==
    LET cand == KCandidates(board, n, cur)
        deg(i) == count_empty_neighbors(board, n, KStep(cur, i))
    IN  Min({i \in cand : \A j \in cand : deg(i) <= deg(j)})

GreedyMove(nxt) ==
    /\ k_board' = [k_board EXCEPT ![nxt] = Len(k_seq) + 1]
    /\ k_seq' = Append(k_seq, nxt)
    /\ UNCHANGED <<k_pc, k_result, gameFields>>

GreedyFail ==
    /\ k_result' = None
    /\ k_pc' = "done"
    /\ ShowResult(None)
    /\ UNCHANGED <<k_board, k_seq>>

\* solve_warnsdorff: one pass of `while move_count < board_size * board_size`
WarnsdorffStep ==
    /\ k_pc = "run" /\ k_alg = "warnsdorff"
    /\ Len(k_seq) < k_size * k_size
    /\ IF KCandidates(k_board, k_size, Last(k_seq)) = {}
       THEN GreedyFail
       ELSE GreedyMove(KStep(Last(k_seq), MinDegIdx(k_board, k_size, Last(k_seq))))
    /\ UNCHANGED <<k_size, start_position, k_alg, k_stack, k_found, k_steps,
                   notKnight>>

\* neural_heuristic(x, y), times ten: 0.3 * distance_from_center
\* - 0.7 * empty_neighbors
neural_heuristic(board, n, c) ==
    LET center == n \div 2
        distance_from_center ==
            -((c[1] - center) * (c[1] - center) + (c[2] - center) * (c[2] - center))
    IN  3 * distance_from_center - 7 * count_empty_neighbors(board, n, c)

\* solve_neural_network: best_move.  The scores are binary floating point, so
\* two candidates whose exact scores are equal may compare either way after
\* rounding: any of them may be the first strict maximum.
BestMoves(board, n, cur) ==
    LET cand == KCandidates(board, n, cur)
        score(i) == neural_heuristic(board, n, KStep(cur, i))
    IN  {i \in cand : \A j \in cand : score(i) >= score(j)}

\* solve_neural_network: one pass of its while loop
NeuralStep ==
    /\ k_pc = "run" /\ k_alg = "neural"
    /\ Len(k_seq) < k_size * k_size
    /\ IF KCandidates(k_board, k_size, Last(k_seq)) = {}
       THEN GreedyFail
       ELSE \E i \in BestMoves(k_board, k_size, Last(k_seq)) :
               GreedyMove(KStep(Last(k_seq), i))
    /\ UNCHANGED <<k_size, start_position, k_alg, k_stack, k_found, k_steps,
                   notKnight>>

\* a greedy solver's `return move_sequence`; show_solution then displays it
GreedyReturn ==
    /\ k_pc = "run" /\ k_alg \in {"warnsdorff", "neural"}
    /\ Len(k_seq) >= k_size * k_size
    /\ k_result' = Some(k_seq)
    /\ k_pc' = "done"
    /\ ShowResult(Some(k_seq))
    /\ UNCHANGED <<k_size, start_position, k_alg, k_board, k_stack, k_found,
                   k_seq, k_steps, notKnight>>

\* is_valid_knight_move(from_pos, to_pos)
is_valid_knight_move(from_pos, to_pos) ==
    LET row_diff == Abs(to_pos[1] - from_pos[1])
        col_diff == Abs(to_pos[2] - from_pos[2])
    IN  (row_diff = 1 /\ col_diff = 2) \/ (row_diff = 2 /\ col_diff = 1)

\* is_valid_move(from_pos, to_pos)
is_valid_move(from_pos, to_pos) ==
    /\ 0 <= to_pos[1] /\ to_pos[1] < k_size
    /\ 0 <= to_pos[2] /\ to_pos[2] < k_size
    /\ ~(k_gboard[to_pos] > 0)
    /\ is_valid_knight_move(from_pos, to_pos)

\* make_move(row, col): a click on a square (an invalid move shows an error
\* box and changes nothing)
MakeMove(row, col) ==
    /\ k_pc \in {"idle", "done"}
    /\ k_size * k_size <= MaxWalkCells
    /\ is_valid_move(current_position, <<row, col>>)
    /\ move_count' = move_count + 1
    /\ k_gboard' = [k_gboard EXCEPT ![<<row, col>>] = move_count + 1]
    /\ current_position' = <<row, col>>
    /\ move_sequence' = Append(move_sequence, <<row, col>>)
    /\ UNCHANGED <<k_size, start_position, k_alg, k_pc, k_board, k_stack,
                   k_found, k_seq, k_result, k_steps, notKnight>>

KnightNext ==
    \/ \E alg \in {"backtracking", "warnsdorff", "neural"} : KnightBegin(alg)
    \/ BtSolved \/ BtTry \/ BtUndo \/ BtReturnFalse \/ BtFinish
    \/ WarnsdorffStep \/ NeuralStep \/ GreedyReturn
    \/ \E c \in Cells(k_size) : MakeMove(c[1], c[2])

SpecKnight == KnightInit /\ [][KnightNext]_vars

-----------------------------------------------------------------------------
(* Knight's tours, stated independently of the solvers *)

KnightApart(c, d) ==
    {Abs(c[1] - d[1]), Abs(c[2] - d[2])} = {1, 2}

\* n*n entries from `start`, every cell once, consecutive entries a knight
\* move apart
IsTour(seq, n, start) ==
    /\ Len(seq) = n * n
    /\ seq[1] = start
    /\ {seq[i] : i \in 1..Len(seq)} = Cells(n)
    /\ \A i \in 1..(Len(seq) - 1) : KnightApart(seq[i], seq[i + 1])

\* C3: a sequence returned by any of the three solvers is a knight's tour
\* from start_position.
C3_ReturnedSequenceIsTour ==
    (k_pc = "done" /\ k_result # None) =>
        IsTour(k_result.seq, k_size, start_position)

C3_Witness ==
    /\ k_pc = "done" /\ k_alg = "warnsdorff" /\ k_size = 8
    /\ k_result # None

\* The clicks made so far are a walk of the knight from start_position that
\* visits no cell twice.
IsWalk ==
    /\ move_sequence[1] = start_position
    /\ \A i \in 1..(Len(move_sequence) - 1) :
          KnightApart(move_sequence[i], move_sequence[i + 1])
    /\ \A i \in 1..Len(move_sequence) : \A j \in 1..Len(move_sequence) :
          i # j => move_sequence[i] # move_sequence[j]

\* C10: solve_backtracking never raises; when it returned None no walk of
\* the knight from start_position covers the board, and otherwise it
\* returned a tour.
C10_NoneIffNoTour ==
    k_alg = "backtracking" =>
        /\ k_pc # "raised"
        /\ (k_pc = "done" /\ k_result = None) =>
              ~(IsWalk /\ Len(move_sequence) = k_size * k_size)
        /\ (k_pc = "done" /\ k_result # None) =>
              IsTour(k_result.seq, k_size, start_position)

C10_WitnessNone ==
    /\ k_alg = "backtracking" /\ k_pc = "done" /\ k_result = None
    /\ k_size = 4 /\ Len(move_sequence) >= 12

\* C27: in every state of the game move_count is the length of
\* move_sequence, and for every k from 1 to move_count the square numbered k
\* on the board is the k-th entry of move_sequence.
C27_CountAndNumbersMatchSequence ==
    /\ move_count = Len(move_sequence)
    /\ \A k \in 1..move_count :
          k <= Len(move_sequence) /\ k_gboard[move_sequence[k]] = k

-----------------------------------------------------------------------------
(* Traveling Salesman: find_shortest_route_dynamic_programming *)

\* Number of cities of the game (self.num_cities is 10).
MaxCities == 4

\* random.randint(50, 100)
DistMin == 50

DistMax == 100

\* The distances drawn are DistMin, DistMin + DistStep, ... up to DistMax.
DistStep == 25

DistanceValues == {d \in DistMin..DistMax : (d - DistMin) % DistStep = 0}

\* [chr(65 + i) for i in range(self.num_cities)]
city_names ==
    SubSeq(<<"A", "B", "C", "D", "E", "F", "G", "H", "I", "J">>, 1, MaxCities)

CityIndices == 0..(Len(city_names) - 1)

\* generate_random_distances: a symmetric matrix with a zero diagonal
SymmetricMatrix(w) ==
    [c \in CityIndices \X CityIndices |->
        IF c[1] = c[2] THEN 0
        ELSE IF c[1] < c[2] THEN w[c] ELSE w[<<c[2], c[1]>>]]

UpperPairs == {c \in CityIndices \X CityIndices : c[1] < c[2]}

\* self.city_names.index(city)
CityIndex(city) ==
    (CHOOSE i \in 1..Len(city_names) : city_names[i] = city) - 1

\* get_distance(city1, city2)
get_distance(city1, city2) == distances[<<CityIndex(city1), CityIndex(city2)>>]

RECURSIVE RouteLegs(_, _)
RouteLegs(route, i) ==
    IF i >= Len(route) THEN 0
    ELSE get_distance(route[i], route[i + 1]) + RouteLegs(route, i + 1)

\* calculate_route_distance(route), route not empty
calculate_route_distance(route) ==
    get_distance(home_city, route[1]) + RouteLegs(route, 1)
        + get_distance(Last(route), home_city)

\* get_selected_cities: the ticked cities in the order of city_names; the
\* home city has no checkbox
SelectedInOrder(S) == SelectSeq(city_names, LAMBDA c : c \in S)

\* float('inf')
Inf == 1000000

\* float addition, inf absorbing
Plus(a, b) == IF a = Inf \/ b = Inf THEN Inf ELSE a + b

SmallerDist(a, b) == IF b < a THEN b ELSE a

\* dist_matrix[i, j] of the local cities
DistMatrix(cities) ==
    [i \in 0..(Len(cities) - 1) |->
        [j \in 0..(Len(cities) - 1) |->
            IF i # j THEN get_distance(cities[i + 1], cities[j + 1]) ELSE 0]]

\* mask & (1 << city) != 0
BitSet(mask, city) == (mask \div Pow2(city)) % 2 = 1

\* mask | (1 << city)
WithBit(mask, city) == IF BitSet(mask, city) THEN mask ELSE mask + Pow2(city)

\* a tsp that forgets the way home
TspBaseNoReturn(D, at) == 0

\* tsp: all cities visited, return to home city: dist_matrix[pos][0]
TspBase(D, at) == D[at][0]

\* tsp(mask, pos) with the memo threaded through: [val, dp]
RECURSIVE tsp(_, _, _, _, _)
RECURSIVE TspLoop(_, _, _, _, _, _, _)
tsp(D, n, mask, at, dp) ==
    IF mask = Pow2(n) - 1
    THEN [val |-> TspBase(D, at), dp |-> dp]
    ELSE IF <<mask, at>> \in DOMAIN dp
    THEN [val |-> dp[<<mask, at>>], dp |-> dp]
    ELSE LET r == TspLoop(D, n, mask, at, 0, Inf, dp)
         IN  [val |-> r.val, dp |-> (<<mask, at>> :> r.val) @@ r.dp]

\* tsp: `for city in range(n)` from `city` on, with ans so far
TspLoop(D, n, mask, at, city, ans, dp) ==
    IF city >= n THEN [val |-> ans, dp |-> dp]
    ELSE IF ~BitSet(mask, city)
    THEN LET sub == tsp(D, n, WithBit(mask, city), city, dp)
             new_ans == Plus(D[at][city], sub.val)
         IN  TspLoop(D, n, mask, at, city + 1, SmallerDist(ans, new_ans), sub.dp)
    ELSE TspLoop(D, n, mask, at, city + 1, ans, dp)

\* dp.get(key, float('inf'))
DpGet(dp, key) == IF key \in DOMAIN dp THEN dp[key] ELSE Inf

\* the memo before the first call: {}
EmptyDp == [k \in {} |-> 0]

TspInit ==
    /\ distances \in {SymmetricMatrix(w) : w \in [UpperPairs -> DistanceValues]}
    /\ home_city \in {city_names[i] : i \in 1..Len(city_names)}
    /\ selected_cities \in
          {SelectedInOrder(S) :
             S \in SUBSET ({city_names[i] : i \in 1..Len(city_names)} \ {home_city})}
    /\ shortest_routes = EmptyDp
    /\ t_pc = "idle"
    /\ t_cities = <<>>
    /\ t_dp = EmptyDp
    /\ min_distance = 0
    /\ t_path = <<>>
    /\ t_mask = 0
    /\ t_pos = 0
    /\ t_round = 0
    /\ HanoiIdle /\ QueensIdle /\ KnightIdle /\ TicIdle /\ VerifyIdle /\ HanoiPlayIdle /\ TicPlayIdle /\ CrossIdle /\ QueensGaIdle /\ TspGaIdle /\ SearchIdle /\ TspPlayIdle

\* find_shortest_route_dynamic_programming up to `min_distance = tsp(1, 0)`
\* and the start of the reconstruction
DpSolve ==
    /\ t_pc = "idle"
    /\ LET cities == <<home_city>> \o selected_cities
           r == tsp(DistMatrix(cities), Len(cities), 1, 0, EmptyDp)
       IN  /\ t_cities' = cities
           /\ min_distance' = r.val
           /\ t_dp' = r.dp
    /\ t_path' = <<>>
    /\ t_mask' = 1
    /\ t_pos' = 0
    /\ t_round' = 0
    /\ t_pc' = "recon"
    /\ UNCHANGED <<distances, home_city, selected_cities, shortest_routes, notTsp>>

\* reconstruction: the value the inner loop compares for `city`
ReconValue(city) ==
    Plus(DistMatrix(t_cities)[t_pos][city],
         DpGet(t_dp, <<WithBit(t_mask, city), city>>))

\* reconstruction: best_city after the inner loop; -1 when no unvisited
\* city has a value below inf
BestCity ==
    LET n == Len(t_cities)
        open == {c \in 0..(n - 1) : ~BitSet(t_mask, c) /\ ReconValue(c) < Inf}
    IN  IF open = {} THEN -1
        ELSE Min({c \in open : \A d \in open : ReconValue(c) <= ReconValue(d)})

\* cities[best_city], Python indexing: -1 is the last entry
CityAt(cities, i) == IF i < 0 THEN cities[Len(cities) + i + 1] ELSE cities[i + 1]

\* one pass of `for _ in range(n - 1)`; 1 << -1 raises ValueError after
\* the append
DpReconStep ==
    /\ t_pc = "recon"
    /\ t_round < Len(t_cities) - 1
    /\ t_path' = Append(t_path, CityAt(t_cities, BestCity))
    /\ IF BestCity < 0
       THEN /\ t_pc' = "raised"
            /\ UNCHANGED <<t_mask, t_pos, t_round>>
       ELSE /\ t_mask' = WithBit(t_mask, BestCity)
            /\ t_pos' = BestCity
            /\ t_round' = t_round + 1
            /\ t_pc' = t_pc
    /\ UNCHANGED <<distances, home_city, selected_cities, shortest_routes,
                   t_cities, t_dp, min_distance, notTsp>>

\* self.shortest_routes["dynamic_programming"] = (path, min_distance); return
DpReturn ==
    /\ t_pc = "recon"
    /\ t_round >= Len(t_cities) - 1
    /\ shortest_routes' =
          ("dynamic_programming" :> [route |-> t_path, distance |-> min_distance])
              @@ shortest_routes
    /\ t_pc' = "done"
    /\ UNCHANGED <<distances, home_city, selected_cities, t_cities, t_dp,
                   min_distance, t_path, t_mask, t_pos, t_round, notTsp>>

TspNext == DpSolve \/ DpReconStep \/ DpReturn

SpecTsp == TspInit /\ [][TspNext]_vars

-----------------------------------------------------------------------------
(* The shortest closed tour, by enumeration *)

SeqRange(s) == {s[i] : i \in 1..Len(s)}

\* every ordering of the entries of s (s has no repeats)
Orderings(s) ==
    {p \in [1..Len(s) -> SeqRange(s)] : SeqRange(p) = SeqRange(s)}

\* C4: min_distance, the value of tsp(1, 0), is the least length of a closed
\* tour home -> the selected cities in some order -> home.
C4_MinDistanceIsOptimal ==
    (t_pc \in {"recon", "raised", "done"} /\ selected_cities # <<>>) =>
        /\ \E p \in Orderings(selected_cities) :
              calculate_route_distance(p) = min_distance
        /\ \A p \in Orderings(selected_cities) :
              calculate_route_distance(p) >= min_distance

C4_Witness ==
    /\ t_pc \in {"recon", "raised", "done"}
    /\ Len(selected_cities) = 3
    /\ \E p \in Orderings(selected_cities) :
          calculate_route_distance(p) > min_distance

\* C5: for a non-empty selection the dynamic programming solver returns
\* (it does not raise) a route holding each selected city exactly once and
\* not the home city, whose length by calculate_route_distance is the
\* distance returned with it.
C5_DpRouteMatchesDistance ==
    selected_cities # <<>> =>
        /\ t_pc # "raised"
        /\ t_pc = "done" =>
              LET ret == shortest_routes["dynamic_programming"]
              IN  /\ ret.route \in Orderings(selected_cities)
                  /\ home_city \notin SeqRange(ret.route)
                  /\ calculate_route_distance(ret.route) = ret.distance

\* the (mask, city) keys the inner loop of the reconstruction looks up in the
\* pass that is about to run
LookedUp ==
    {<<WithBit(t_mask, city), city>> :
        city \in {c \in 0..(Len(t_cities) - 1) : ~BitSet(t_mask, c)}}

\* C19: from the start of the reconstruction on, the memo holds every
\* (mask, city) key the coming pass looks up, at each of the n - 1 passes, so
\* no lookup falls back to infinity and every pass selects an unvisited city.
C19_MemoHoldsLookedUpKeys ==
    /\ (t_pc = "recon" /\ t_round < Len(t_cities) - 1) =>
           /\ LookedUp \subseteq DOMAIN t_dp
           /\ BestCity >= 0 /\ ~BitSet(t_mask, BestCity)
    /\ t_pc # "raised"

-----------------------------------------------------------------------------
(* Tic-Tac-Toe on the 5x5 board: the board tests and minimax *)

\* self.board_size
TicBoardSize == 5

TicCells == (0..(TicBoardSize - 1)) \X (0..(TicBoardSize - 1))

\* np.zeros((board_size, board_size), dtype=int)
EmptyBoard == [c \in TicCells |-> 0]

\* for i in range(board_size): for j in range(board_size - 3): cells
\* (i, j) .. (i, j+3), in loop order
RowWindows ==
    [n \in 1..(TicBoardSize * (TicBoardSize - 3)) |->
        LET i == (n - 1) \div (TicBoardSize - 3)
            j == (n - 1) % (TicBoardSize - 3)
        IN  [k \in 1..4 |-> <<i, j + k - 1>>]]

\* for i in range(board_size - 3): for j in range(board_size): cells
\* (i, j) .. (i+3, j)
ColWindows ==
    [n \in 1..((TicBoardSize - 3) * TicBoardSize) |->
        LET i == (n - 1) \div TicBoardSize
            j == (n - 1) % TicBoardSize
        IN  [k \in 1..4 |-> <<i + k - 1, j>>]]

\* for i in range(board_size - 3): for j in range(board_size - 3): cells
\* (i, j) .. (i+3, j+3)
DiagWindows ==
    [n \in 1..((TicBoardSize - 3) * (TicBoardSize - 3)) |->
        LET i == (n - 1) \div (TicBoardSize - 3)
            j == (n - 1) % (TicBoardSize - 3)
        IN  [k \in 1..4 |-> <<i + k - 1, j + k - 1>>]]

\* anti-diagonal windows whose first row is 4 only
AntiWindowsLastRow ==
    [n \in 1..(TicBoardSize - 3) |->
        [k \in 1..4 |-> <<TicBoardSize - 1 - (k - 1), (n - 1) + k - 1>>]]

\* for i in range(3, board_size): for j in range(board_size - 3): cells
\* (i, j), (i-1, j+1), (i-2, j+2), (i-3, j+3)
AntiWindows ==
    [n \in 1..((TicBoardSize - 3) * (TicBoardSize - 3)) |->
        LET i == 3 + (n - 1) \div (TicBoardSize - 3)
            j == (n - 1) % (TicBoardSize - 3)
        IN  [k \in 1..4 |-> <<i - (k - 1), j + k - 1>>]]

\* board[a] != 0 and board[a] == board[b] == board[c] == board[d]
FourEqual(b, w) ==
    /\ b[w[1]] # 0
    /\ b[w[1]] = b[w[2]] /\ b[w[2]] = b[w[3]] /\ b[w[3]] = b[w[4]]

\* check_win_board(board)
check_win_board(b) ==
    \/ \E n \in 1..Len(RowWindows) : FourEqual(b, RowWindows[n])
    \/ \E n \in 1..Len(ColWindows) : FourEqual(b, ColWindows[n])
    \/ \E n \in 1..Len(DiagWindows) : FourEqual(b, DiagWindows[n])
    \/ \E n \in 1..Len(AntiWindows) : FourEqual(b, AntiWindows[n])

\* check_draw_board(board): np.count_nonzero(board == 0) == 0
check_draw_board(b) == \A c \in TicCells : b[c] # 0

\* np.count_nonzero(window == v) for a numpy slice: elementwise
ArrayCount(b, w, v) == Cardinality({k \in 1..4 : b[w[k]] = v})

\* np.count_nonzero(window == v) for a Python list: `list == v` is False
ListCount(b, w, v) == 0

\* evaluate_window: the scoring of the three counts
WindowScore(computer_count, human_count, empty_count) ==
    IF computer_count = 4 THEN 100
    ELSE IF computer_count = 3 /\ empty_count = 1 THEN 5
    ELSE IF computer_count = 2 /\ empty_count = 2 THEN 2
    ELSE IF human_count = 3 /\ empty_count = 1 THEN -10
    ELSE IF human_count = 2 /\ empty_count = 2 THEN -2
    ELSE 0

\* evaluate_window(window), window a slice of the board array (rows, columns)
evaluate_window(b, w) ==
    WindowScore(ArrayCount(b, w, -1), ArrayCount(b, w, 1), ArrayCount(b, w, 0))

\* evaluate_window(window), window a list comprehension (both diagonals)
evaluate_window_list(b, w) ==
    WindowScore(ListCount(b, w, -1), ListCount(b, w, 1), ListCount(b, w, 0))

RECURSIVE SumArrayWindows(_, _, _)
SumArrayWindows(b, ws, n) ==
    IF n > Len(ws) THEN 0
    ELSE evaluate_window(b, ws[n]) + SumArrayWindows(b, ws, n + 1)

RECURSIVE SumListWindows(_, _, _)
SumListWindows(b, ws, n) ==
    IF n > Len(ws) THEN 0
    ELSE evaluate_window_list(b, ws[n]) + SumListWindows(b, ws, n + 1)

\* evaluate_board()
evaluate_board(b) ==
    SumArrayWindows(b, RowWindows, 1) + SumArrayWindows(b, ColWindows, 1)
        + SumListWindows(b, DiagWindows, 1) + SumListWindows(b, AntiWindows, 1)

Larger(a, b) == IF a >= b THEN a ELSE b

\* minimax: return -10 + depth if is_maximizing else 10 - depth
TerminalScore(depth, is_maximizing) ==
    IF is_maximizing THEN -10 + depth ELSE 10 - depth

\* minimax: `return best_score`, with the board as the loops left it
MinimaxResult(st) == [score |-> st.best_score, board |-> st.board]

\* the same statements without `self.board[i, j] = 0`
MinimaxUpdateNoUndo(st, r, best, is_maximizing, i, j) ==
    [board |-> r.board,
     best_score |-> best,
     alpha |-> IF is_maximizing THEN Larger(st.alpha, best) ELSE st.alpha,
     beta |-> IF is_maximizing THEN st.beta ELSE SmallerDist(st.beta, best)]

\* minimax: the statements after the recursive call returned r for cell
\* (i, j): undo the move, update best_score and alpha or beta
MinimaxUpdate(st, r, best, is_maximizing, i, j) ==
    [board |-> [r.board EXCEPT ![<<i, j>>] = 0],
     best_score |-> best,
     alpha |-> IF is_maximizing THEN Larger(st.alpha, best) ELSE st.alpha,
     beta |-> IF is_maximizing THEN st.beta ELSE SmallerDist(st.beta, best)]

\* minimax: best_score = max(score, best_score) or min(score, best_score)
MinimaxScored(st, r, is_maximizing, i, j) ==
    MinimaxUpdate(st, r,
                  IF is_maximizing THEN Larger(r.score, st.best_score)
                  ELSE SmallerDist(st.best_score, r.score),
                  is_maximizing, i, j)

\* minimax(depth, max_depth, is_maximizing, alpha, beta) on board b:
\* [score, board], board being self.board when the call returns
RECURSIVE minimax(_, _, _, _, _, _)
RECURSIVE MinimaxRows(_, _, _, _, _)
RECURSIVE MinimaxCells(_, _, _, _, _, _)
RECURSIVE MinimaxBreak(_, _, _, _, _, _)
minimax(b, depth, max_depth, is_maximizing, alpha, beta) ==
    IF check_win_board(b)
    THEN [score |-> TerminalScore(depth, is_maximizing), board |-> b]
    ELSE IF check_draw_board(b) \/ depth = max_depth
    THEN [score |-> evaluate_board(b), board |-> b]
    ELSE MinimaxResult(
             MinimaxRows([board |-> b,
                          best_score |-> IF is_maximizing THEN -Inf ELSE Inf,
                          alpha |-> alpha, beta |-> beta],
                         depth, max_depth, is_maximizing, 0))

\* minimax: `for i in range(board_size)` from row i on; st holds the board,
\* best_score, alpha and beta
MinimaxRows(st, depth, max_depth, is_maximizing, i) ==
    IF i >= TicBoardSize THEN st
    ELSE MinimaxRows(MinimaxCells(st, depth, max_depth, is_maximizing, i, 0),
                     depth, max_depth, is_maximizing, i + 1)

\* minimax: `for j in range(board_size)` of row i from column j on
MinimaxCells(st, depth, max_depth, is_maximizing, i, j) ==
    IF j >= TicBoardSize THEN st
    ELSE IF st.board[<<i, j>>] # 0
    THEN MinimaxCells(st, depth, max_depth, is_maximizing, i, j + 1)
    ELSE MinimaxBreak(
             MinimaxScored(st,
                           minimax([st.board EXCEPT ![<<i, j>>] =
                                       IF is_maximizing THEN 1 ELSE -1],
                                   depth + 1, max_depth, ~is_maximizing,
                                   st.alpha, st.beta),
                           is_maximizing, i, j),
             depth, max_depth, is_maximizing, i, j)

\* minimax: `if beta <= alpha: break` ends the loop over j only
MinimaxBreak(st, depth, max_depth, is_maximizing, i, j) ==
    IF st.beta <= st.alpha THEN st
    ELSE MinimaxCells(st, depth, max_depth, is_maximizing, i, j + 1)

\* available_moves, in the order of the list comprehension
AvailableMoves(b) ==
    SelectSeq([n \in 1..(TicBoardSize * TicBoardSize) |->
                  <<(n - 1) \div TicBoardSize, (n - 1) % TicBoardSize>>],
              LAMBDA c : b[c] = 0)

\* Lines of the board a test position puts three marks on.
MaxThreatLines == 1

\* the windows the test positions use: the first rows, columns and diagonals
ThreatWindows ==
    SubSeq(RowWindows, 1, MaxThreatLines) \o SubSeq(ColWindows, 1, MaxThreatLines)
        \o SubSeq(DiagWindows, 1, MaxThreatLines)
        \o SubSeq(AntiWindows, 1, MaxThreatLines)

\* a board set up as the tests do: three marks of `who` on the window, the
\* cell at `gap` left empty, nothing else on the board
ThreatBoard(w, gap, who) ==
    [c \in TicCells |->
        IF \E k \in 1..4 : k # gap /\ w[k] = c THEN who ELSE 0]

MinimaxInit ==
    /\ tt_board \in
          {ThreatBoard(ThreatWindows[n], gap, who) :
              n \in 1..Len(ThreatWindows), gap \in {1, 4}, who \in {1, -1}}
    /\ current_player = -1
    /\ game_over = FALSE
    /\ winner = None
    /\ tt_pc = "idle"
    /\ tt_move = None
    /\ tt_moves = <<>>
    /\ tt_scores = <<>>
    /\ tt_nodes = <<>>
    /\ tt_sel = 0
    /\ tt_iter = 0
    /\ tt_win = [called |-> FALSE, value |-> FALSE]
    /\ HanoiIdle /\ QueensIdle /\ KnightIdle /\ TspIdle /\ VerifyIdle /\ HanoiPlayIdle /\ TicPlayIdle /\ CrossIdle /\ QueensGaIdle /\ TspGaIdle /\ SearchIdle /\ TspPlayIdle

\* minimax_move(): best_score, best_move, available_moves.  random.shuffle
\* only decides in which order the moves are scored; they are scored here in
\* the order of the list, and the order is accounted for at the return.
MinimaxBegin ==
    /\ tt_pc = "idle"
    /\ tt_moves' = AvailableMoves(tt_board)
    /\ tt_scores' = <<>>
    /\ tt_pc' = "minimax"
    /\ UNCHANGED <<tt_board, current_player, game_over, winner, tt_move,
                   tt_nodes, tt_sel, tt_iter, tt_win, notTic>>

\* minimax_move: the board and scores after the call of minimax returned r
MoveScored(r, move) ==
    /\ tt_board' = [r.board EXCEPT ![move] = 0]
    /\ tt_scores' = Append(tt_scores, r.score)

\* minimax_move: one pass of `for move in available_moves`: make the move,
\* score it with minimax, undo it
MinimaxPass ==
    /\ tt_pc = "minimax"
    /\ Len(tt_scores) < Len(tt_moves)
    /\ MoveScored(minimax([tt_board EXCEPT ![tt_moves[Len(tt_scores) + 1]] = -1],
                          0, 3, TRUE, -Inf, Inf),
                  tt_moves[Len(tt_scores) + 1])
    /\ UNCHANGED <<current_player, game_over, winner, tt_pc, tt_move, tt_moves,
                   tt_nodes, tt_sel, tt_iter, tt_win, notTic>>

\* minimax_move: `return best_move`: the move of greatest score that the
\* shuffled order met first, kept by `if score > best_score`; any move of
\* greatest score can be that one
MinimaxReturn ==
    /\ tt_pc = "minimax"
    /\ Len(tt_scores) >= Len(tt_moves)
    /\ IF tt_moves = <<>>
       THEN tt_move' = None
       ELSE \E k \in 1..Len(tt_moves) :
               /\ \A m \in 1..Len(tt_moves) : tt_scores[k] >= tt_scores[m]
               /\ tt_move' = Some(<<tt_moves[k]>>)
    /\ tt_pc' = "done"
    /\ UNCHANGED <<tt_board, current_player, game_over, winner, tt_moves,
                   tt_scores, tt_nodes, tt_sel, tt_iter, tt_win, notTic>>

MinimaxNext == MinimaxBegin \/ MinimaxPass \/ MinimaxReturn

SpecMinimax == MinimaxInit /\ [][MinimaxNext]_vars

-----------------------------------------------------------------------------
(* The move minimax_move should find *)

\* the empty cells where a mark of `mark` makes four in a line
CompletingCells(b, mark) ==
    {c \in TicCells : b[c] = 0 /\ check_win_board([b EXCEPT ![c] = mark])}

\* C6: when exactly one empty cell completes four in a line for the human and
\* none does for the computer, minimax_move returns that cell.
C6_MinimaxBlocks ==
    (/\ tt_pc = "done"
     /\ Cardinality(CompletingCells(tt_board, 1)) = 1
     /\ CompletingCells(tt_board, -1) = {}) =>
        /\ tt_move # None
        /\ tt_move.seq[1] \in CompletingCells(tt_board, 1)

\* C7: when some empty cell completes four in a line for the computer,
\* minimax_move returns such a cell.
C7_MinimaxWins ==
    (tt_pc = "done" /\ CompletingCells(tt_board, -1) # {}) =>
        /\ tt_move # None
        /\ tt_move.seq[1] \in CompletingCells(tt_board, -1)

\* C18: minimax_move leaves the board as it found it: after every root move
\* has been tried, scored by minimax to its depth limit and taken back, and
\* at the return, the board is cell for cell the board at the call.
C18_MinimaxRestoresBoard == [][tt_board' = tt_board]_vars

\* minimax_move has returned a move after scoring all 22 empty cells
C18_Witness ==
    /\ tt_pc = "done" /\ tt_move # None
    /\ Len(tt_scores) = TicBoardSize * TicBoardSize - 3

-----------------------------------------------------------------------------
(* Tic-Tac-Toe: mcts_move *)

\* iterations = 1000
MctsIterations == 1000

\* Most empty cells of a position mcts_move is run on.
MaxEmpty == 2

\* a full board without four in a line: rows XXOOX, OOXXO, XXOOX, ...
FullBoard ==
    [c \in TicCells |-> IF (c[2] + 2 * c[1]) % 4 < 2 THEN 1 ELSE -1]

\* the full board with the cells of S emptied
NearFullBoard(S) == [c \in TicCells |-> IF c \in S THEN 0 ELSE FullBoard[c]]

\* MCTSNode.__init__(board, parent, move, player); parent 0 is None
NewNode(b, parent, move, player) ==
    [board |-> b, parent |-> parent, move |-> move, player |-> player,
     children |-> <<>>, wins |-> 0, visits |-> 0,
     untried_moves |-> AvailableMoves(b)]

\* TicTacToeGame.__init__: self.game_id = self.db.add_game("tic_tac_toe")
\* raises AttributeError when db is None
NewGameRaises(db_is_none) == db_is_none

\* MCTSNode.is_terminal(): game = TicTacToeGame(None, "", None, None), then
\* the two board tests
is_terminal(node) ==
    IF NewGameRaises(TRUE) THEN "raised"
    ELSE IF check_win_board(node.board) \/ check_draw_board(node.board)
    THEN "True"
    ELSE "False"

\* simulate_game(board, player): the values a random playout can return
RECURSIVE simulate_game(_, _)
simulate_game(b, player) ==
    IF check_win_board(b) THEN {-player}
    ELSE IF check_draw_board(b) THEN {0}
    ELSE UNION {simulate_game([b EXCEPT ![c] = player], -player) :
                   c \in {d \in TicCells : b[d] = 0}}

\* backpropagate(node, result) on the nodes, from node n up to the root
RECURSIVE backpropagate(_, _, _)
backpropagate(nodes, n, result) ==
    IF n = 0 THEN nodes
    ELSE backpropagate(
             [nodes EXCEPT ![n].visits = @ + 1,
                           ![n].wins = IF nodes[n].player = -result
                                       THEN @ + 1 ELSE @],
             nodes[n].parent, result)

\* max(root.children, key=lambda c: c.visits): the first child of most visits
MostVisited(nodes) ==
    LET kids == nodes[1].children
        k == Min({i \in 1..Len(kids) :
                    \A j \in 1..Len(kids) :
                        nodes[kids[i]].visits >= nodes[kids[j]].visits})
    IN  nodes[kids[k]].move

\* node.expand() with the untried move i chosen: the nodes afterwards, the
\* child last
Expanded(nodes, n, i) ==
    LET node == nodes[n]
        move == node.untried_moves[i]
        child == NewNode([node.board EXCEPT ![move] = -node.player], n,
                         Some(<<move>>), -node.player)
    IN  Append([nodes EXCEPT
                   ![n].untried_moves =
                       SubSeq(node.untried_moves, 1, i - 1)
                           \o SubSeq(node.untried_moves, i + 1,
                                     Len(node.untried_moves)),
                   ![n].children = Append(node.children, Len(nodes) + 1)],
               child)

MctsInit ==
    /\ tt_board \in
          {NearFullBoard({f[k] : k \in 1..MaxEmpty}) :
              f \in [1..MaxEmpty -> TicCells]}
    /\ current_player = -1
    /\ game_over = FALSE
    /\ winner = None
    /\ tt_pc = "idle"
    /\ tt_move = None
    /\ tt_moves = <<>>
    /\ tt_scores = <<>>
    /\ tt_nodes = <<>>
    /\ tt_sel = 0
    /\ tt_iter = 0
    /\ tt_win = [called |-> FALSE, value |-> FALSE]
    /\ HanoiIdle /\ QueensIdle /\ KnightIdle /\ TspIdle /\ VerifyIdle /\ HanoiPlayIdle /\ TicPlayIdle /\ CrossIdle /\ QueensGaIdle /\ TspGaIdle /\ SearchIdle /\ TspPlayIdle

\* mcts_move(): root = MCTSNode(self.board.copy(), None, None, -1)
MctsBegin ==
    /\ tt_pc = "idle"
    /\ tt_nodes' = <<NewNode(tt_board, 0, None, -1)>>
    /\ tt_iter' = 0
    /\ tt_sel' = 1
    /\ tt_pc' = "mcts"
    /\ UNCHANGED <<tt_board, current_player, game_over, winner, tt_move,
                   tt_moves, tt_scores, tt_win, notTic>>

\* mcts_move: select_node returned node n of `nodes`: simulation and
\* backpropagation, the end of the pass, and after the last pass the return
\* of the most visited child's move
MctsFinishPass(nodes, n) ==
    /\ \E result \in simulate_game(nodes[n].board, nodes[n].player) :
          tt_nodes' = backpropagate(nodes, n, result)
    /\ tt_iter' = tt_iter + 1
    /\ tt_sel' = 1
    /\ IF tt_iter + 1 >= MctsIterations
       THEN /\ tt_move' = MostVisited(tt_nodes')
            /\ tt_pc' = "done"
       ELSE UNCHANGED <<tt_move, tt_pc>>

\* select_node(node) for node tt_sel: expand it if it has untried moves;
\* otherwise ask is_terminal(), and descend to best_child() (UCT; one of the
\* children) if it answers False
MctsSelect ==
    /\ tt_pc = "mcts"
    /\ tt_iter < MctsIterations
    /\ IF tt_nodes[tt_sel].untried_moves # <<>>
       THEN \E i \in 1..Len(tt_nodes[tt_sel].untried_moves) :
               MctsFinishPass(Expanded(tt_nodes, tt_sel, i), Len(tt_nodes) + 1)
       ELSE IF is_terminal(tt_nodes[tt_sel]) = "raised"
       THEN /\ tt_pc' = "raised"
            /\ UNCHANGED <<tt_nodes, tt_iter, tt_sel, tt_move>>
       ELSE IF is_terminal(tt_nodes[tt_sel]) = "True"
       THEN MctsFinishPass(tt_nodes, tt_sel)
       ELSE /\ \E k \in 1..Len(tt_nodes[tt_sel].children) :
                  tt_sel' = tt_nodes[tt_sel].children[k]
            /\ UNCHANGED <<tt_nodes, tt_iter, tt_move, tt_pc>>
    /\ UNCHANGED <<tt_board, current_player, game_over, winner, tt_moves,
                   tt_scores, tt_win, notTic>>

MctsNext == MctsBegin \/ MctsSelect

SpecMcts == MctsInit /\ [][MctsNext]_vars

\* C8: on a board with an empty cell and no four in a line, mcts_move does
\* not raise, and the move it returns is an empty cell of the board.
C8_MctsReturnsEmptyCell ==
    ((\E c \in TicCells : tt_board[c] = 0) /\ ~check_win_board(tt_board)) =>
        /\ tt_pc # "raised"
        /\ tt_pc = "done" => (tt_move # None /\ tt_board[tt_move.seq[1]] = 0)

\* simulate_game(board, player): current_player = player, and the first
\* random move is `board[row, col] = current_player`
FirstPlayoutMark(player) == player

\* the node's board is its parent's board with one more mark, `mark`, on the
\* node's move cell
AddsMark(nodes, n, mark) ==
    /\ nodes[n].move # None
    /\ nodes[nodes[n].parent].board[nodes[n].move.seq[1]] = 0
    /\ nodes[n].board =
          [nodes[nodes[n].parent].board EXCEPT ![nodes[n].move.seq[1]] = mark]

\* C24: in the tree of mcts_move every child of the root holds the current
\* board plus one mark of the player to move (the computer) on its move
\* cell, the marks alternate between the players along every path from the
\* root, and a playout from a node starts with a mark of the opponent of the
\* player who made the node's move.
C24_TreeAlternatesFromComputer ==
    \A n \in 2..Len(tt_nodes) :
        /\ tt_nodes[n].parent = 1 =>
              (tt_nodes[1].board = tt_board /\ AddsMark(tt_nodes, n, current_player))
        /\ tt_nodes[n].parent > 1 =>
              AddsMark(tt_nodes, n, -tt_nodes[tt_nodes[n].parent].player)
        /\ AddsMark(tt_nodes, n, tt_nodes[n].player)
        /\ FirstPlayoutMark(tt_nodes[n].player) = -tt_nodes[n].player

-----------------------------------------------------------------------------
(* Tic-Tac-Toe: check_win_board on boards set up cell by cell *)

\* Most marks on a board check_win_board is called on.
MaxMarks == 4

WinInit ==
    /\ tt_board = EmptyBoard
    /\ current_player = 1
    /\ game_over = FALSE
    /\ winner = None
    /\ tt_pc = "idle"
    /\ tt_move = None
    /\ tt_moves = <<>>
    /\ tt_scores = <<>>
    /\ tt_nodes = <<>>
    /\ tt_sel = 0
    /\ tt_iter = 0
    /\ tt_win = [called |-> FALSE, value |-> FALSE]
    /\ HanoiIdle /\ QueensIdle /\ KnightIdle /\ TspIdle /\ VerifyIdle /\ HanoiPlayIdle /\ TicPlayIdle /\ CrossIdle /\ QueensGaIdle /\ TspGaIdle /\ SearchIdle /\ TspPlayIdle

\* board[row, col] = mark, as the callers and the tests prepare a board;
\* the cells are filled in row-major order, which reaches every board once
SetCell(row, col, mark) ==
    /\ ~tt_win.called
    /\ \A c \in TicCells :
          tt_board[c] # 0 => c[1] * TicBoardSize + c[2] < row * TicBoardSize + col
    /\ Cardinality({c \in TicCells : tt_board[c] # 0}) < MaxMarks
    /\ tt_board' = [tt_board EXCEPT ![<<row, col>>] = mark]
    /\ UNCHANGED <<current_player, game_over, winner, tt_pc, tt_move, tt_moves,
                   tt_scores, tt_nodes, tt_sel, tt_iter, tt_win, notTic>>

\* check_win_board(self.board)
CheckWin ==
    /\ ~tt_win.called
    /\ tt_win' = [called |-> TRUE, value |-> check_win_board(tt_board)]
    /\ UNCHANGED <<tt_board, current_player, game_over, winner, tt_pc, tt_move,
                   tt_moves, tt_scores, tt_nodes, tt_sel, tt_iter, notTic>>

WinNext ==
    \/ \E c \in TicCells : \E mark \in {1, -1} : SetCell(c[1], c[2], mark)
    \/ CheckWin

SpecWin == WinInit /\ [][WinNext]_vars

\* four cells in a line from c in direction d
LineFrom(c, d) == [k \in 0..3 |-> <<c[1] + k * d[1], c[2] + k * d[2]>>]

\* the lines of four cells of the board: along a row, a column, or a
\* diagonal of either direction
FourLines ==
    {LineFrom(c, d) :
        c \in TicCells, d \in {<<0, 1>>, <<1, 0>>, <<1, 1>>, <<1, -1>>}}
      \cap [0..3 -> TicCells]

\* some line holds four equal marks
HasFourInLine(b) ==
    \E line \in FourLines :
        b[line[0]] # 0 /\ \A k \in 1..3 : b[line[k]] = b[line[0]]

\* C9: check_win_board answers True exactly when a row, a column or a
\* diagonal of either direction holds four consecutive equal non-zero marks.
C9_CheckWinIffFourInLine ==
    tt_win.called => (tt_win.value <=> HasFourInLine(tt_board))

C9_Witness ==
    /\ tt_win.called /\ tt_win.value
    /\ tt_board[<<3, 0>>] = -1 /\ tt_board[<<2, 1>>] = -1
    /\ tt_board[<<1, 2>>] = -1 /\ tt_board[<<0, 3>>] = -1

-----------------------------------------------------------------------------
\* Knight's Tour: verify_solution(moves) on a typed-in list
\* (knights_tour_game.py, submit_solution and verify_solution)

\* largest board whose submitted lists are enumerated
MaxVerifySize == 2

\* how far beyond the last row and column a typed entry may lie
MaxOffBoard == 1

\* the squares a typed entry can name: the board and the rows and columns
\* just beyond it (the parser accepts any pair of integers)
EntryCells(n) == (0..(n - 1 + MaxOffBoard)) \X (0..(n - 1 + MaxOffBoard))

\* the first i for which moves[i-1], moves[i] is not a knight's move
\* (0-based i as in `for i in range(1, len(moves))`), or 0 when there is none
FirstBadStep(moves) ==
    LET bad == {i \in 1..(Len(moves) - 1) :
                   ~is_valid_knight_move(moves[i], moves[i + 1])}
    IN  IF bad = {} THEN 0 ELSE CHOOSE i \in bad : \A j \in bad : i <= j

\* verify_solution(moves): (is_valid, message); moves[0] of an empty list
\* raises IndexError
verify_solution(moves) ==
    IF moves = <<>>
    THEN [called |-> TRUE, is_valid |-> FALSE, message |-> "IndexError"]
    ELSE IF moves[1] # start_position
    THEN [called |-> TRUE, is_valid |-> FALSE,
          message |-> "The first move must be the starting position"]
    ELSE IF Len(moves) # k_size * k_size
    THEN [called |-> TRUE, is_valid |-> FALSE,
          message |-> "The solution must visit all squares exactly once"]
    ELSE IF FirstBadStep(moves) # 0
    THEN [called |-> TRUE, is_valid |-> FALSE,
          message |-> "Invalid knight's move"]
    ELSE IF is_valid_knight_move(Last(moves), moves[1])
    THEN [called |-> TRUE, is_valid |-> TRUE,
          message |-> "Valid closed knight's tour!"]
    ELSE [called |-> TRUE, is_valid |-> TRUE,
          message |-> "Valid open knight's tour!"]

\* a fresh game and an empty solution box
KnightVerifyInit ==
    /\ k_size \in 1..MaxVerifySize
    /\ start_position \in Cells(k_size)
    /\ k_gboard = FreshBoard(k_size, start_position)
    /\ current_position = start_position
    /\ move_sequence = <<start_position>>
    /\ move_count = 1
    /\ k_alg = "none"
    /\ k_pc = "idle"
    /\ k_board = <<>>
    /\ k_stack = <<>>
    /\ k_found = FALSE
    /\ k_seq = <<>>
    /\ k_result = None
    /\ k_steps = 0
    /\ v_moves = <<>>
    /\ v_result = [called |-> FALSE, is_valid |-> FALSE, message |-> ""]
    /\ HanoiIdle /\ QueensIdle /\ TspIdle /\ TicIdle /\ HanoiPlayIdle /\ TicPlayIdle /\ CrossIdle /\ QueensGaIdle /\ TspGaIdle /\ SearchIdle /\ TspPlayIdle

\* one more position typed into the solution box
KnightTypeEntry(cell) ==
    /\ ~v_result.called
    /\ Len(v_moves) < k_size * k_size
    /\ v_moves' = Append(v_moves, cell)
    /\ UNCHANGED <<v_result, notVerify>>

\* verify_solution(moves) is called on the list
KnightVerify ==
    /\ ~v_result.called
    /\ v_result' = verify_solution(v_moves)
    /\ UNCHANGED <<v_moves, notVerify>>

KnightVerifyNext ==
    \/ \E cell \in EntryCells(k_size) : KnightTypeEntry(cell)
    \/ KnightVerify

SpecKnightVerify == KnightVerifyInit /\ [][KnightVerifyNext]_vars

\* C11: a list that verify_solution reports valid visits every square of the
\* board exactly once: every entry on the board, no square twice, none missing.
C11_ValidVisitsEverySquareOnce ==
    (v_result.called /\ v_result.is_valid) =>
        /\ \A i \in 1..Len(v_moves) : v_moves[i] \in Cells(k_size)
        /\ \A c \in Cells(k_size) :
               Cardinality({i \in 1..Len(v_moves) : v_moves[i] = c}) = 1

-----------------------------------------------------------------------------
\* Tower of Hanoi: verify_solution(moves) on a submitted sequence
\* (tower_of_hanoi_game.py, submit_solution and verify_solution)

\* largest num_disks and longest sequence whose submissions are enumerated
MaxVerifyDisks == 2

MaxVerifyMoves == 4

PegNames == {"A", "B", "C"}

\* ord(source) - ord('A')
PegOrd(name) == IF name = "A" THEN 0 ELSE IF name = "B" THEN 1 ELSE 2

\* the size test with the comparison turned around
LargerOnSmallerReversed(pegs, source_idx, dest_idx) ==
    pegs[dest_idx] # <<>> /\ Last(pegs[source_idx]) < Last(pegs[dest_idx])

\* `pegs[dest_idx] and pegs[source_idx][-1] > pegs[dest_idx][-1]`
LargerOnSmaller(pegs, source_idx, dest_idx) ==
    pegs[dest_idx] # <<>> /\ Last(pegs[source_idx]) > Last(pegs[dest_idx])

\* the `for i, (source, dest) in enumerate(moves)` loop from index i (from 1
\* here) on the local list `pegs`, and the final test after it
RECURSIVE VerifyLoop(_, _, _, _)
VerifyLoop(n, pegs, moves, i) ==
    IF i > Len(moves)
    THEN IF Len(pegs[2]) = n
         THEN [called |-> TRUE, is_valid |-> TRUE, move |-> 0,
               message |-> "Solution is valid!"]
         ELSE [called |-> TRUE, is_valid |-> FALSE, move |-> 0,
               message |-> "Not all disks are on the destination peg at the end"]
    ELSE IF pegs[PegOrd(moves[i][1])] = <<>>
    THEN [called |-> TRUE, is_valid |-> FALSE, move |-> i,
          message |-> "Peg is empty"]
    ELSE IF LargerOnSmaller(pegs, PegOrd(moves[i][1]), PegOrd(moves[i][2]))
    THEN [called |-> TRUE, is_valid |-> FALSE, move |-> i,
          message |-> "A larger disk cannot be placed on a smaller disk"]
    ELSE VerifyLoop(n, MoveDisk(pegs, PegOrd(moves[i][1]), PegOrd(moves[i][2])),
                    moves, i + 1)

\* verify_solution(moves) of the Tower of Hanoi: (is_valid, message), with
\* the move number the message starts with (0 when it names none)
hanoi_verify_solution(moves) == VerifyLoop(num_disks, InitialPegs(num_disks), moves, 1)

HanoiVerifyInit ==
    /\ num_disks \in 1..MaxVerifyDisks
    /\ optimal_moves = <<>>
    /\ h_pc = "idle"
    /\ h_alg = "none"
    /\ h_state = InitialPegs(0)
    /\ h_i = 0
    /\ h_moves = <<>>
    /\ v_moves = <<>>
    /\ v_result = [called |-> FALSE, is_valid |-> FALSE, message |-> ""]
    /\ QueensIdle /\ KnightIdle /\ TspIdle /\ TicIdle /\ HanoiPlayIdle /\ TicPlayIdle /\ CrossIdle /\ QueensGaIdle /\ TspGaIdle /\ SearchIdle /\ TspPlayIdle

\* one more (source, dest) pair in the submitted sequence
HanoiTypeMove(source, dest) ==
    /\ ~v_result.called
    /\ Len(v_moves) < MaxVerifyMoves
    /\ v_moves' = Append(v_moves, <<source, dest>>)
    /\ UNCHANGED <<v_result, notVerify>>

\* verify_solution(moves) is called on the sequence
HanoiVerify ==
    /\ ~v_result.called
    /\ v_result' = hanoi_verify_solution(v_moves)
    /\ UNCHANGED <<v_moves, notVerify>>

HanoiVerifyNext ==
    \/ \E source \in PegNames, dest \in PegNames : HanoiTypeMove(source, dest)
    \/ HanoiVerify

SpecHanoiVerify == HanoiVerifyInit /\ [][HanoiVerifyNext]_vars

\* the replay of the first k moves is legal
LegalPrefix(k) == Replay(num_disks, SubSeq(v_moves, 1, k)).legal

\* C12: verify_solution reports valid exactly when the replay of the sequence
\* from the initial pegs is legal at every move and ends with all disks on
\* peg C; when a move is illegal the message names the first such move.
C12_VerifyMatchesReplay ==
    v_result.called =>
        /\ v_result.is_valid <=>
               /\ Replay(num_disks, v_moves).legal
               /\ Replay(num_disks, v_moves).pegs = AllOnC(num_disks)
        /\ ~Replay(num_disks, v_moves).legal =>
               /\ v_result.move \in 1..Len(v_moves)
               /\ ~LegalPrefix(v_result.move)
               /\ LegalPrefix(v_result.move - 1)
        /\ Replay(num_disks, v_moves).legal => v_result.move = 0

\* a three-move sequence for two disks that was accepted as valid
C12_Witness ==
    /\ v_result.called /\ v_result.is_valid
    /\ num_disks = 2 /\ Len(v_moves) = 3

-----------------------------------------------------------------------------
\* Tower of Hanoi played by hand: the From/To boxes and make_move
\* (tower_of_hanoi_game.py, setup_ui and make_move)

\* largest num_disks and longest recorded move list that are followed
MaxPlayDisks == 3

MaxPlayMoves == 7

\* a make_move that lets a peg be moved onto itself
SamePegAllowed(source, dest) == FALSE

\* `if source == dest`
SamePeg(source, dest) == source = dest

HanoiPlayInit ==
    /\ num_disks \in 1..MaxPlayDisks
    /\ optimal_moves = <<>>
    /\ h_pc = "idle"
    /\ h_alg = "none"
    /\ h_state = InitialPegs(0)
    /\ h_i = 0
    /\ h_moves = <<>>
    /\ self_pegs = InitialPegs(num_disks)
    /\ self_moves = <<>>
    /\ source_var = "A"
    /\ dest_var = "C"
    /\ h_shown = ""
    /\ QueensIdle /\ KnightIdle /\ TspIdle /\ TicIdle /\ VerifyIdle /\ TicPlayIdle /\ CrossIdle /\ QueensGaIdle /\ TspGaIdle /\ SearchIdle /\ TspPlayIdle

\* a peg picked in the read-only From box
SelectSource(name) ==
    /\ source_var' = name
    /\ UNCHANGED <<self_pegs, self_moves, dest_var, h_shown, notHanoiPlay>>

\* a peg picked in the read-only To box
SelectDest(name) ==
    /\ dest_var' = name
    /\ UNCHANGED <<self_pegs, self_moves, source_var, h_shown, notHanoiPlay>>

\* make_move(): the Make Move button
HanoiMakeMove ==
    LET source_idx == PegOrd(source_var)
        dest_idx == PegOrd(dest_var)
    IN  /\ Len(self_moves) < MaxPlayMoves
        /\ IF SamePeg(source_var, dest_var)
           THEN /\ h_shown' = "Source and destination pegs must be different"
                /\ UNCHANGED <<self_pegs, self_moves>>
           ELSE IF self_pegs[source_idx] = <<>>
           THEN /\ h_shown' = "Peg is empty"
                /\ UNCHANGED <<self_pegs, self_moves>>
           ELSE IF /\ self_pegs[dest_idx] # <<>>
                   /\ Last(self_pegs[source_idx]) > Last(self_pegs[dest_idx])
           THEN /\ h_shown' = "A larger disk cannot be placed on a smaller disk"
                /\ UNCHANGED <<self_pegs, self_moves>>
           ELSE /\ self_pegs' = MoveDisk(self_pegs, source_idx, dest_idx)
                /\ self_moves' = Append(self_moves, <<source_var, dest_var>>)
                /\ h_shown' = IF Len(self_pegs'[2]) = num_disks
                              THEN "Congratulations" ELSE ""
        /\ UNCHANGED <<source_var, dest_var, notHanoiPlay>>

HanoiPlayNext ==
    \/ \E name \in PegNames : SelectSource(name)
    \/ \E name \in PegNames : SelectDest(name)
    \/ HanoiMakeMove

SpecHanoiPlay == HanoiPlayInit /\ [][HanoiPlayNext]_vars

\* the three cases the rules reject
MustReject ==
    \/ source_var = dest_var
    \/ self_pegs[PegOrd(source_var)] = <<>>
    \/ /\ self_pegs[PegOrd(dest_var)] # <<>>
       /\ self_pegs[PegOrd(source_var)][Len(self_pegs[PegOrd(source_var)])]
              > self_pegs[PegOrd(dest_var)][Len(self_pegs[PegOrd(dest_var)])]

\* the top disk of the source peg, and nothing else, went to the destination
TopDiskMoved ==
    LET s == PegOrd(source_var)
        d == PegOrd(dest_var)
    IN  /\ Len(self_pegs'[s]) = Len(self_pegs[s]) - 1
        /\ \A k \in 1..Len(self_pegs'[s]) : self_pegs'[s][k] = self_pegs[s][k]
        /\ Len(self_pegs'[d]) = Len(self_pegs[d]) + 1
        /\ \A k \in 1..Len(self_pegs[d]) : self_pegs'[d][k] = self_pegs[d][k]
        /\ self_pegs'[d][Len(self_pegs'[d])] = self_pegs[s][Len(self_pegs[s])]
        /\ \A j \in 0..2 : j \notin {s, d} => self_pegs'[j] = self_pegs[j]

\* C13: a make_move (a step that leaves both boxes as they are) whose source
\* equals its destination, whose source peg is empty, or whose disk is larger
\* than the destination's top disk leaves the pegs and the move list as they
\* were; every other make_move moves exactly the top disk of the source peg
\* onto the destination peg and appends one entry to the move list.
C13_MakeMoveRejectsOrMovesTop ==
    [][(source_var' = source_var /\ dest_var' = dest_var) =>
          IF MustReject
          THEN self_pegs' = self_pegs /\ self_moves' = self_moves
          ELSE /\ TopDiskMoved
               /\ self_moves' = Append(self_moves, <<source_var, dest_var>>)]_vars

\* a larger disk was refused after two moves had been made
C13_Witness ==
    /\ Len(self_moves) = 2
    /\ h_shown = "A larger disk cannot be placed on a smaller disk"

\* a minimum one move larger
optimal_move_count_plus_one(n) == Pow2(n)

\* self.optimal_move_count = 2**self.num_disks - 1
optimal_move_count(n) == Pow2(n) - 1

\* C26: optimal_move_count is the true minimum of the game played by hand:
\* from all disks on peg A, no list of fewer than 2^num_disks - 1 accepted
\* make_move calls ends with all num_disks disks on peg C.
C26_NoShorterSolution ==
    Len(self_pegs[2]) = num_disks =>
        Len(self_moves) >= optimal_move_count(num_disks)

\* three disks were brought to peg C by hand in seven moves
C26_Witness ==
    /\ num_disks = 3 /\ Len(self_pegs[2]) = num_disks
    /\ Len(self_moves) = optimal_move_count(num_disks)
    /\ h_shown = "Congratulations"

-----------------------------------------------------------------------------
\* Tic-Tac-Toe played through the window: make_move on a click, the
\* computer_move callbacks that update_status schedules, set_algorithm and
\* new_game (tic_tac_toe_game.py).  Tk runs one handler at a time, so each
\* handler is one step.

\* the cells that are clicked and chosen: the first MaxPlayCells cells in
\* row-major order
MaxPlayCells == 8

\* most computer_move callbacks waiting at one time
MaxPending == 2

PlayCells == {c \in TicCells : c[1] * TicBoardSize + c[2] < MaxPlayCells}

\* an integer where None is the alternative (self.winner)
SomeInt(v) == Some(<<v>>)

\* the solver variables, which the handlers of the window leave alone
ticSolverVars == <<tt_pc, tt_move, tt_moves, tt_scores, tt_nodes, tt_sel,
                   tt_iter, tt_win>>

\* update_status() after a handler left the game in (over, player): the
\* number of callbacks waiting afterwards
update_status(over, player, pending) ==
    IF ~over /\ player # 1 THEN pending + 1 ELSE pending

\* a make_move that does not look at the cell
make_move_returns_any_cell(row, col) == game_over \/ current_player # 1

\* a make_move that does not look at game_over
make_move_returns_but_not_when_over(row, col) ==
    current_player # 1 \/ tt_board[<<row, col>>] # 0

\* `if self.game_over or self.current_player != 1 or self.board[row, col] != 0`
make_move_returns(row, col) ==
    game_over \/ current_player # 1 \/ tt_board[<<row, col>>] # 0

\* a computer_move that moves whenever it is called
computer_move_never_returns == FALSE

\* `if self.game_over or self.current_player != -1`
computer_move_returns == game_over \/ current_player # -1

\* __init__: an empty board, the human to move, and update_status()
TicPlayInit ==
    /\ tt_board = EmptyBoard
    /\ current_player = 1
    /\ game_over = FALSE
    /\ winner = None
    /\ tt_pc = "idle"
    /\ tt_move = None
    /\ tt_moves = <<>>
    /\ tt_scores = <<>>
    /\ tt_nodes = <<>>
    /\ tt_sel = 0
    /\ tt_iter = 0
    /\ tt_win = [called |-> FALSE, value |-> FALSE]
    /\ algorithm = "minimax"
    /\ tt_pending = update_status(FALSE, 1, 0)
    /\ tt_event = [op |-> "__init__", cell |-> <<0, 0>>]
    /\ tt_marks = <<>>
    /\ HanoiIdle /\ QueensIdle /\ KnightIdle /\ TspIdle /\ VerifyIdle /\ HanoiPlayIdle /\ CrossIdle /\ QueensGaIdle /\ TspGaIdle /\ SearchIdle /\ TspPlayIdle

\* the part make_move and computer_move share: the mark is written, then
\* check_win / check_draw end the game or the turn passes to `next`
PlaceMark(cell, next) ==
    LET b == [tt_board EXCEPT ![cell] = current_player]
    IN  /\ tt_board' = b
        /\ tt_marks' = Append(tt_marks, current_player)
        /\ IF check_win_board(b)
           THEN /\ game_over' = TRUE
                /\ winner' = SomeInt(current_player)
                /\ UNCHANGED current_player
           ELSE IF check_draw_board(b)
           THEN /\ game_over' = TRUE
                /\ winner' = SomeInt(0)
                /\ UNCHANGED current_player
           ELSE /\ current_player' = next
                /\ UNCHANGED <<game_over, winner>>

\* make_move(row, col): a click on a board button
TicMakeMove(row, col) ==
    /\ tt_pending < MaxPending
    /\ tt_event' = [op |-> "make_move", cell |-> <<row, col>>]
    /\ IF make_move_returns(row, col)
       THEN UNCHANGED <<tt_board, current_player, game_over, winner,
                        tt_pending, tt_marks>>
       ELSE /\ PlaceMark(<<row, col>>, -1)
            /\ tt_pending' = update_status(game_over', current_player', tt_pending)
    /\ UNCHANGED <<algorithm, ticSolverVars, notTicGame>>

\* computer_move(): one scheduled callback runs.  With "minimax" the mark
\* goes to the cell minimax_move returns, which is one of the empty cells
\* (MinimaxReturn says which); with "mcts", mcts_move raises from the first
\* is_terminal and the callback ends there.
ComputerMove ==
    /\ tt_pending > 0
    /\ tt_event' = [op |-> "computer_move", cell |-> <<0, 0>>]
    /\ IF computer_move_returns \/ algorithm # "minimax"
       THEN /\ tt_pending' = tt_pending - 1
            /\ UNCHANGED <<tt_board, current_player, game_over, winner, tt_marks>>
       ELSE /\ \E move \in {c \in PlayCells : tt_board[c] = 0} :
                  PlaceMark(move, 1)
            /\ tt_pending' = update_status(game_over', current_player',
                                           tt_pending - 1)
    /\ UNCHANGED <<algorithm, ticSolverVars, notTicGame>>

\* set_algorithm(): a click on one of the two radio buttons
SetAlgorithm(algo_var) ==
    /\ tt_pending < MaxPending
    /\ algorithm' = algo_var
    /\ tt_pending' = update_status(game_over, current_player, tt_pending)
    /\ tt_event' = [op |-> "set_algorithm", cell |-> <<0, 0>>]
    /\ UNCHANGED <<tt_board, current_player, game_over, winner, tt_marks,
                   ticSolverVars, notTicGame>>

\* new_game(): the New Game button
TicNewGame ==
    /\ tt_board' = EmptyBoard
    /\ current_player' = 1
    /\ game_over' = FALSE
    /\ winner' = None
    /\ tt_marks' = <<>>
    /\ tt_pending' = update_status(FALSE, 1, tt_pending)
    /\ tt_event' = [op |-> "new_game", cell |-> <<0, 0>>]
    /\ UNCHANGED <<algorithm, ticSolverVars, notTicGame>>

TicPlayNext ==
    \/ \E c \in PlayCells : TicMakeMove(c[1], c[2])
    \/ ComputerMove
    \/ \E algo_var \in {"minimax", "mcts"} : SetAlgorithm(algo_var)
    \/ TicNewGame

SpecTicPlay == TicPlayInit /\ [][TicPlayNext]_vars

\* C14: a make_move(row, col) on an occupied cell, after the game is over, or
\* when it is not the human's turn leaves board, current_player, game_over and
\* winner as they were; any other make_move writes one X into (row, col),
\* leaves the other cells alone, and hands the turn to the computer unless
\* the move ended the game (four in a line, or a full board).
C14_MakeMoveGuarded ==
    [][tt_event'.op = "make_move" =>
          IF game_over \/ current_player # 1 \/ tt_board[tt_event'.cell] # 0
          THEN UNCHANGED <<tt_board, current_player, game_over, winner>>
          ELSE /\ tt_board'[tt_event'.cell] = 1
               /\ \A c \in TicCells \ {tt_event'.cell} : tt_board'[c] = tt_board[c]
               /\ game_over' <=> \/ HasFourInLine(tt_board')
                                 \/ \A c \in TicCells : tt_board'[c] # 0
               /\ ~game_over' => current_player' = -1]_vars

\* the human completed the first row's four and the game ended there
C14_Witness ==
    /\ tt_event.op = "make_move" /\ game_over /\ winner = SomeInt(1)
    /\ \A j \in 0..3 : tt_board[<<0, j>>] = 1

CountMarks(mark) == Cardinality({c \in TicCells : tt_board[c] = mark})

\* C20: in every state of the game the X marks number as many as the O
\* marks or one more; while the game is not over it is the computer's turn
\* exactly when there is one more; and no two marks written one after the
\* other are the same player's.
C20_TurnsAlternate ==
    /\ CountMarks(1) - CountMarks(-1) \in {0, 1}
    /\ ~game_over =>
          (current_player = -1 <=> CountMarks(1) - CountMarks(-1) = 1)
    /\ \A i \in 1..(Len(tt_marks) - 1) : tt_marks[i] # tt_marks[i + 1]

\* a second callback is waiting while the computer has already answered in
\* a game begun with New Game
C20_Witness ==
    /\ tt_pending > 0 /\ current_player = 1 /\ ~game_over
    /\ Len(tt_marks) = 4
    /\ tt_event.op = "computer_move"

-----------------------------------------------------------------------------
\* Tic-Tac-Toe played to the end: games that are followed from a position
\* with few empty cells, so that full boards are reached

\* Most empty cells of the position a game is followed from.
MaxEndEmpty == 3

\* a position of a game in progress (no four in a line, as many X as O, the
\* human to move) whose empty cells lie among the cells that are clicked
TicEndgameInit ==
    /\ \E S \in SUBSET PlayCells :
          /\ S # {} /\ Cardinality(S) <= MaxEndEmpty
          /\ Cardinality({c \in TicCells \ S : FullBoard[c] = 1})
                = Cardinality({c \in TicCells \ S : FullBoard[c] = -1})
          /\ tt_board = NearFullBoard(S)
    /\ current_player = 1
    /\ game_over = FALSE
    /\ winner = None
    /\ tt_pc = "idle"
    /\ tt_move = None
    /\ tt_moves = <<>>
    /\ tt_scores = <<>>
    /\ tt_nodes = <<>>
    /\ tt_sel = 0
    /\ tt_iter = 0
    /\ tt_win = [called |-> FALSE, value |-> FALSE]
    /\ algorithm = "minimax"
    /\ tt_pending = 0
    /\ tt_event = [op |-> "computer_move", cell |-> <<0, 0>>]
    /\ tt_marks = <<>>
    /\ HanoiIdle /\ QueensIdle /\ KnightIdle /\ TspIdle /\ VerifyIdle /\ HanoiPlayIdle /\ CrossIdle /\ QueensGaIdle /\ TspGaIdle /\ SearchIdle /\ TspPlayIdle

SpecTicEndgame == TicEndgameInit /\ [][TicPlayNext]_vars

\* some line holds four marks of `mark`
FourOf(b, mark) ==
    \E line \in FourLines : \A k \in 0..3 : b[line[k]] = mark

\* game_over and winner agree, and winner agrees with the board
OutcomeMatchesBoard ==
    /\ game_over <=> winner # None
    /\ winner = SomeInt(1) => FourOf(tt_board, 1)
    /\ winner = SomeInt(-1) => FourOf(tt_board, -1)
    /\ winner = SomeInt(0) =>
          /\ \A c \in TicCells : tt_board[c] # 0
          /\ ~HasFourInLine(tt_board)

\* C29: in every state of the game, game_over is true exactly when winner
\* is not None; winner = 1 means four consecutive X in a line, winner = -1
\* four consecutive O, winner = 0 a full board without four in a line; and
\* once game_over is true the board does not change until new_game.
C29_OutcomeMatchesBoardAndStays ==
    /\ []OutcomeMatchesBoard
    /\ [][game_over => (tt_board' = tt_board \/ tt_event'.op = "new_game")]_vars

\* a game ended in a draw on the board, and a click afterwards changed nothing
C29_Witness ==
    /\ game_over /\ winner = SomeInt(0)
    /\ \A c \in TicCells : tt_board[c] # 0
    /\ tt_event.op = "make_move" /\ Len(tt_marks) = 3

-----------------------------------------------------------------------------
\* ordered_crossover of the two genetic algorithms
\* (eight_queens_game.py and traveling_salesman_game.py: the same code)

\* most elements of a parent
MaxCrossSize == 4

\* the orderings of the set S, as sequences
RECURSIVE Perms(_)
Perms(S) ==
    IF S = {} THEN {<<>>}
    ELSE UNION {{<<e>> \o p : p \in Perms(S \ {e})} : e \in S}

\* sorted(random.sample(range(size), 2)): every pair start < end, none when
\* size < 2 (random.sample raises ValueError)
CutPoints(size) ==
    {<<start, end>> \in (0..(size - 1)) \X (0..(size - 1)) : start < end}

\* `x in child`
InChild(child, x) == \E k \in 1..Len(child) : child[k] = Some(<<x>>)

\* a fill that takes parent2's next element without looking into child
SkipNothing(child, parent2, parent2_idx) == parent2_idx

\* while parent2[parent2_idx] in child: parent2_idx += 1
RECURSIVE SkipUsed(_, _, _)
SkipUsed(child, parent2, parent2_idx) ==
    IF InChild(child, parent2[parent2_idx + 1])
    THEN SkipUsed(child, parent2, parent2_idx + 1)
    ELSE parent2_idx

\* the second loop from position i: skip what child holds, then fill
RECURSIVE FillLoop(_, _, _, _)
\* child[i] = parent2[parent2_idx]; parent2_idx += 1, and on to the next i
FillFrom(child, parent2, i, parent2_idx) ==
    FillLoop([child EXCEPT ![i + 1] = Some(<<parent2[parent2_idx + 1]>>)],
             parent2, i + 1, parent2_idx + 1)

FillLoop(child, parent2, i, parent2_idx) ==
    IF i >= Len(child) THEN child
    ELSE IF ~child[i + 1].none THEN FillLoop(child, parent2, i + 1, parent2_idx)
    ELSE FillFrom(child, parent2, i, SkipUsed(child, parent2, parent2_idx))

\* the child as a plain list, once no position holds None
Unwrapped(child) == [k \in 1..Len(child) |-> child[k].seq[1]]

\* ordered_crossover(parent1, parent2) for the cut (start, end)
ordered_crossover(parent1, parent2, start, end) ==
    Unwrapped(FillLoop([k \in 1..Len(parent1) |->
                           IF start <= k - 1 /\ k - 1 <= end
                           THEN Some(<<parent1[k]>>) ELSE None],
                       parent2, 0, 0))

\* two parents over the same 1..MaxCrossSize elements
CrossInit ==
    /\ \E n \in 1..MaxCrossSize :
          /\ x_parent1 \in Perms(0..(n - 1))
          /\ x_parent2 \in Perms(0..(n - 1))
    /\ x_cut = <<>>
    /\ x_child = None
    /\ HanoiIdle /\ QueensIdle /\ KnightIdle /\ TspIdle /\ TicIdle /\ VerifyIdle /\ HanoiPlayIdle /\ TicPlayIdle /\ QueensGaIdle /\ TspGaIdle /\ SearchIdle /\ TspPlayIdle

\* ordered_crossover(parent1, parent2) returns a child
Crossover(start, end) ==
    /\ x_cut = <<>>
    /\ x_cut' = <<start, end>>
    /\ x_child' = Some(ordered_crossover(x_parent1, x_parent2, start, end))
    /\ UNCHANGED <<x_parent1, x_parent2, notCross>>

\* ordered_crossover on parents of one element: random.sample(range(1), 2)
\* raises ValueError and nothing is returned
CrossoverRaises ==
    /\ x_cut = <<>>
    /\ CutPoints(Len(x_parent1)) = {}
    /\ x_cut' = <<"ValueError">>
    /\ UNCHANGED <<x_parent1, x_parent2, x_child, notCross>>

CrossNext ==
    \/ \E cut \in CutPoints(Len(x_parent1)) : Crossover(cut[1], cut[2])
    \/ CrossoverRaises

SpecCross == CrossInit /\ [][CrossNext]_vars

\* the elements of seq at the positions (from 0) in P, left to right
AtPositions(seq, P) ==
    SelectSeq(seq, LAMBDA e : \E k \in 1..Len(seq) : seq[k] = e /\ (k - 1) \in P)

\* C17: for parents that are orderings of the same n >= 2 elements and a cut
\* start < end, the child is an ordering of those elements, agrees with
\* parent 1 on positions start..end, and holds on its other positions, left
\* to right, the other elements in the order parent 2 has them.
C17_CrossoverKeepsOrder ==
    ~x_child.none =>
        LET child == x_child.seq
            n == Len(x_parent1)
            inside == x_cut[1]..x_cut[2]
            kept == {x_parent1[k + 1] : k \in inside}
        IN  /\ Len(child) = n
            /\ {child[k] : k \in 1..n} = {x_parent1[k] : k \in 1..n}
            /\ \A k \in inside : child[k + 1] = x_parent1[k + 1]
            /\ AtPositions(child, (0..(n - 1)) \ inside)
                   = SelectSeq(x_parent2, LAMBDA e : e \notin kept)

\* a child that differs from both of its parents
C17_Witness ==
    /\ ~x_child.none
    /\ Len(x_parent1) = 4
    /\ x_child.seq # x_parent1 /\ x_child.seq # x_parent2
    /\ x_cut = <<1, 2>>

-----------------------------------------------------------------------------
\* N-Queens: find_all_solutions_genetic (eight_queens_game.py)

\* board_size, population_size, elite_count and generations that are followed
\* (8, 100, 10 and 1000 in the game)
GaBoardSize == 4

GaPopulation == 3

GaElite == 2

GaGenerations == 2

\* `if fitness == 28` and `return 28 - conflicts`
PerfectFitness == 28

\* `if len(best_solutions) >= 10`
GaWanted == 10

\* tournament_size=3
TournamentSize == 3

\* calculate_fitness(individual)
calculate_fitness(individual) ==
    PerfectFitness
      - Cardinality({p \in (0..(q_size - 1)) \X (0..(q_size - 1)) :
                        /\ p[1] < p[2]
                        /\ Abs(individual[p[1] + 1] - individual[p[2] + 1])
                              = Abs(p[1] - p[2])})

\* board = np.zeros(...); for j, i in enumerate(individual): board[i, j] = 1
BoardOf(individual) ==
    [i \in 0..(q_size - 1) |->
        [j \in 0..(q_size - 1) |-> IF individual[j + 1] = i THEN 1 ELSE 0]]

\* board_to_solution_string(board): for each column that holds a queen, the
\* number (from 1) of its first queen's row
board_to_solution_string(board) ==
    LET first(j) == CHOOSE i \in 0..(q_size - 1) :
                        /\ board[i][j] = 1
                        /\ \A h \in 0..(i - 1) : board[h][j] # 1
        cols == SelectSeq([k \in 1..q_size |-> k - 1],
                          LAMBDA j : \E i \in 0..(q_size - 1) : board[i][j] = 1)
    IN  [k \in 1..Len(cols) |-> first(cols[k]) + 1]

\* `if solution_str not in [...]: best_solutions.append(board)`
AppendIfNew(best_solutions, board) ==
    IF \E k \in 1..Len(best_solutions) :
          board_to_solution_string(best_solutions[k]) = board_to_solution_string(board)
    THEN best_solutions
    ELSE Append(best_solutions, board)

\* the scoring loop over population from its k-th individual: best_solutions
\* afterwards, and whether the function returned from inside the loop
RECURSIVE ScoreLoop(_, _, _)
ScoreLoop(population, k, best_solutions) ==
    IF k > Len(population) THEN [best |-> best_solutions, returned |-> FALSE]
    ELSE IF calculate_fitness(population[k]) # PerfectFitness
    THEN ScoreLoop(population, k + 1, best_solutions)
    ELSE IF Len(AppendIfNew(best_solutions, BoardOf(population[k]))) >= GaWanted
            /\ AppendIfNew(best_solutions, BoardOf(population[k])) # best_solutions
    THEN [best |-> AppendIfNew(best_solutions, BoardOf(population[k])),
          returned |-> TRUE]
    ELSE ScoreLoop(population, k + 1,
                   AppendIfNew(best_solutions, BoardOf(population[k])))

\* sorted(range(len(fitness_scores)), key=..., reverse=True)[:elite_count]:
\* the sort is stable, so equal scores keep their order
EliteIndices(fitness_scores) ==
    LET n == Len(fitness_scores)
        rank(i) == Cardinality({j \in 1..n :
                        \/ fitness_scores[j] > fitness_scores[i]
                        \/ fitness_scores[j] = fitness_scores[i] /\ j < i})
    IN  [r \in 1..SmallerOf(GaElite, n) |-> CHOOSE i \in 1..n : rank(i) = r - 1]

\* random.sample(range(len(population)), tournament_size): the ordered
\* samples without repetition
TournamentSamples(n) ==
    {s \in [1..TournamentSize -> 1..n] :
        \A a \in 1..TournamentSize : \A b \in 1..TournamentSize :
            a # b => s[a] # s[b]}

\* tournament_indices[tournament_fitness.index(max(tournament_fitness))]
TournamentWinner(fitness_scores, s) ==
    s[CHOOSE a \in 1..TournamentSize :
         /\ \A b \in 1..TournamentSize : fitness_scores[s[b]] <= fitness_scores[s[a]]
         /\ \A b \in 1..(a - 1) : fitness_scores[s[b]] < fitness_scores[s[a]]]

\* the individuals tournament_selection can return
tournament_selection(population, fitness_scores) ==
    {population[TournamentWinner(fitness_scores, s)] :
        s \in TournamentSamples(Len(population))}

\* mutate(individual) for the sample (idx1, idx2)
mutate(individual, idx1, idx2) ==
    [individual EXCEPT ![idx1 + 1] = individual[idx2 + 1],
                       ![idx2 + 1] = individual[idx1 + 1]]

\* random.sample(range(size), 2): every ordered pair of different positions,
\* none when size < 2 (random.sample raises ValueError)
SwapPoints(size) ==
    {p \in (0..(size - 1)) \X (0..(size - 1)) : p[1] # p[2]}

\* `if random.random() < mutation_rate: self.mutate(child)`: the child as it
\* is, or with any two positions swapped
MaybeMutated(children) ==
    children \cup
    UNION {{mutate(child, idx[1], idx[2]) : idx \in SwapPoints(Len(child))} :
              child \in children}

\* `if random.random() < 0.7`: ordered_crossover of the two parents for any
\* cut, or a copy of parent1
MaybeCrossed(parents) ==
    parents \cup
    UNION {{ordered_crossover(parent1, parent2, cut[1], cut[2]) :
                cut \in CutPoints(Len(parent1))} :
              parent1 \in parents, parent2 \in parents}

\* the children one pass of the `while` loop can append: two tournaments,
\* crossover or copy, mutation or none
Children(population, fitness_scores) ==
    MaybeMutated(MaybeCrossed(tournament_selection(population, fitness_scores)))

\* the closing loop over the last population from its k-th individual
RECURSIVE FinalLoop(_, _, _, _)
FinalLoop(population, k, best_fitness, best_solutions) ==
    IF k > Len(population) THEN best_solutions
    ELSE IF calculate_fitness(population[k]) > best_fitness
    THEN FinalLoop(population, k + 1, calculate_fitness(population[k]),
                   <<BoardOf(population[k])>>)
    ELSE IF calculate_fitness(population[k]) = best_fitness
    THEN FinalLoop(population, k + 1, best_fitness,
                   AppendIfNew(best_solutions, BoardOf(population[k])))
    ELSE FinalLoop(population, k + 1, best_fitness, best_solutions)

QueensGaInit ==
    /\ q_size = GaBoardSize
    /\ q_board = <<>>
    /\ q_stack = <<>>
    /\ q_solutions = <<>>
    /\ q_pc = "idle"
    /\ ga_population = <<>>
    /\ ga_gen = 0
    /\ ga_best = <<>>
    /\ ga_pc = "idle"
    /\ HanoiIdle /\ KnightIdle /\ TspIdle /\ TicIdle /\ VerifyIdle /\ HanoiPlayIdle /\ TicPlayIdle /\ CrossIdle /\ TspGaIdle /\ SearchIdle /\ TspPlayIdle

\* the initial population: every individual a shuffle of range(board_size)
GaBegin ==
    /\ ga_pc = "idle"
    /\ ga_population' \in [1..GaPopulation -> Perms(0..(q_size - 1))]
    /\ ga_pc' = "evolve"
    /\ UNCHANGED <<ga_gen, ga_best, notQueensGa>>

\* one pass of `for _ in range(generations)`: scoring (and the return from
\* inside it), the elite, and the children
GaFitness(population) ==
    [k \in 1..Len(population) |-> calculate_fitness(population[k])]

\* new_population: the elite, then the children
NextPopulations(population, elite, children) ==
    {[k \in 1..Len(elite) |-> population[elite[k]]] \o kids :
        kids \in [1..(GaPopulation - Len(elite)) -> children]}

GaGeneration ==
    /\ ga_pc = "evolve"
    /\ ga_gen < GaGenerations
    /\ ga_best' = ScoreLoop(ga_population, 1, ga_best).best
    /\ IF ScoreLoop(ga_population, 1, ga_best).returned
       THEN /\ ga_pc' = "done"
            /\ UNCHANGED <<ga_population, ga_gen>>
       ELSE /\ ga_population' \in
                  NextPopulations(ga_population,
                                  EliteIndices(GaFitness(ga_population)),
                                  Children(ga_population, GaFitness(ga_population)))
            /\ ga_gen' = ga_gen + 1
            /\ UNCHANGED ga_pc
    /\ UNCHANGED notQueensGa

\* the generations are used up: the closing loop and `return best_solutions`
GaFinish ==
    /\ ga_pc = "evolve"
    /\ ga_gen = GaGenerations
    /\ ga_best' = FinalLoop(ga_population, 1, 0, ga_best)
    /\ ga_pc' = "done"
    /\ UNCHANGED <<ga_population, ga_gen, notQueensGa>>

QueensGaNext ==
    \/ GaBegin
    \/ GaGeneration
    \/ GaFinish

SpecQueensGa == QueensGaInit /\ [][QueensGaNext]_vars

\* np.sum(board[i, :]) and np.sum(board[:, j])
RowSum(board, i) == Cardinality({j \in 0..(q_size - 1) : board[i][j] = 1})

ColSum(board, j) == Cardinality({i \in 0..(q_size - 1) : board[i][j] = 1})

\* is_valid_solution(board)
is_valid_solution(board) ==
    /\ \A i \in 0..(q_size - 1) : ~(RowSum(board, i) > 1)
    /\ \A j \in 0..(q_size - 1) : ~(ColSum(board, j) > 1)
    /\ \A i \in 0..(q_size - 1) : \A j \in 0..(q_size - 1) :
          board[i][j] = 1 =>
              /\ \A k \in 1..(SmallerOf(q_size - i, q_size - j) - 1) : board[i + k][j + k] # 1
              /\ \A k \in 1..(SmallerOf(q_size - i, j + 1) - 1) : board[i + k][j - k] # 1
              /\ \A k \in 1..(SmallerOf(i + 1, q_size - j) - 1) : board[i - k][j + k] # 1
              /\ \A k \in 1..(SmallerOf(i + 1, j + 1) - 1) : board[i - k][j - k] # 1

\* C15: every board find_all_solutions_genetic returns holds board_size
\* queens and passes is_valid_solution.
C15_GeneticBoardsValid ==
    ga_pc = "done" =>
        \A k \in 1..Len(ga_best) :
            /\ Cardinality(QueenCells(ga_best[k], q_size)) = q_size
            /\ is_valid_solution(ga_best[k])

-----------------------------------------------------------------------------
\* Travelling Salesman: find_shortest_route_genetic_algorithm
\* (traveling_salesman_game.py)

\* population_size and generations that are followed (50 and 100 in the game)
TgPopulation == 3

TgGenerations == 2

\* most pairs of cities whose distance is DistMax; all others are DistMin
MaxLongLegs == 1

\* fitness_scores: 1 / distance for every route.  Only the order of the
\* scores is used, and 1 / d falls as d grows, so the score is kept as -d.
TgFitness(population) ==
    [k \in 1..Len(population) |-> 0 - calculate_route_distance(population[k])]

\* fitness_scores.index(max(fitness_scores)), from 1
FirstBest(fitness_scores) ==
    CHOOSE i \in 1..Len(fitness_scores) :
        /\ \A j \in 1..Len(fitness_scores) : fitness_scores[j] <= fitness_scores[i]
        /\ \A j \in 1..(i - 1) : fitness_scores[j] < fitness_scores[i]

\* new_population: the best individual, then the children
TgNextPopulations(population, best_idx, children) ==
    {<<population[best_idx]>> \o kids :
        kids \in [1..(TgPopulation - 1) -> children]}

\* the closing loop: the first route of least distance
BestRoute(population) == population[FirstBest(TgFitness(population))]

TspGaInit ==
    /\ distances \in
          {SymmetricMatrix(w) :
             w \in {v \in [UpperPairs -> {DistMin, DistMax}] :
                      Cardinality({c \in UpperPairs : v[c] = DistMax}) <= MaxLongLegs}}
    /\ home_city \in {city_names[i] : i \in 1..Len(city_names)}
    /\ selected_cities \in
          {SelectedInOrder(S) :
             S \in (SUBSET ({city_names[i] : i \in 1..Len(city_names)} \ {home_city}))
                      \ {{}}}
    /\ shortest_routes = EmptyDp
    /\ t_pc = "idle"
    /\ t_cities = <<>>
    /\ t_dp = EmptyDp
    /\ min_distance = 0
    /\ t_path = <<>>
    /\ t_mask = 0
    /\ t_pos = 0
    /\ t_round = 0
    /\ tg_population = <<>>
    /\ tg_gen = 0
    /\ tg_pc = "idle"
    /\ HanoiIdle /\ QueensIdle /\ KnightIdle /\ TicIdle /\ VerifyIdle /\ HanoiPlayIdle /\ TicPlayIdle /\ CrossIdle /\ QueensGaIdle /\ SearchIdle /\ TspPlayIdle

\* the initial population: every route a shuffle of the selected cities
TgBegin ==
    /\ tg_pc = "idle"
    /\ tg_population' \in [1..TgPopulation -> Orderings(selected_cities)]
    /\ tg_pc' = "evolve"
    /\ UNCHANGED <<tg_gen, tspVars, notTspGame>>

\* one pass of `for _ in range(generations)` in which no call raises
TgGeneration ==
    /\ tg_pc = "evolve"
    /\ tg_gen < TgGenerations
    /\ tg_population' \in
          TgNextPopulations(tg_population, FirstBest(TgFitness(tg_population)),
                            Children(tg_population, TgFitness(tg_population)))
    /\ tg_gen' = tg_gen + 1
    /\ UNCHANGED <<tg_pc, tspVars, notTspGame>>

\* one pass in which ordered_crossover or mutate is reached for a route of
\* one city: random.sample(range(1), 2) raises ValueError, which nothing catches
TgRaise ==
    /\ tg_pc = "evolve"
    /\ tg_gen < TgGenerations
    /\ TgPopulation > 1
    /\ CutPoints(Len(selected_cities)) = {}
    /\ tg_pc' = "raised"
    /\ UNCHANGED <<tg_population, tg_gen, tspVars, notTspGame>>

\* the generations are used up: the best route of the last population is
\* stored and returned
TgReturn ==
    /\ tg_pc = "evolve"
    /\ tg_gen = TgGenerations
    /\ shortest_routes' =
          ("genetic_algorithm" :>
              [route |-> BestRoute(tg_population),
               distance |-> calculate_route_distance(BestRoute(tg_population))])
              @@ shortest_routes
    /\ tg_pc' = "done"
    /\ UNCHANGED <<distances, home_city, selected_cities, t_pc, t_cities, t_dp,
                   min_distance, t_path, t_mask, t_pos, t_round,
                   tg_population, tg_gen, notTspGame>>

TspGaNext ==
    \/ TgBegin
    \/ TgGeneration
    \/ TgRaise
    \/ TgReturn

SpecTspGa == TspGaInit /\ [][TspGaNext]_vars

\* C16: for every non-empty selection, a single city included, the genetic
\* solver does not raise, and what it returns is an ordering of the selected
\* cities together with that route's closed-tour length.
C16_GeneticReturnsRoute ==
    /\ tg_pc # "raised"
    /\ tg_pc = "done" =>
          LET ret == shortest_routes["genetic_algorithm"]
          IN  /\ ret.route \in Orderings(selected_cities)
              /\ ret.distance = calculate_route_distance(ret.route)

-----------------------------------------------------------------------------
(* Tic-Tac-Toe: evaluate_board on positions with three marks on a line *)

\* every 4-cell window evaluate_board walks over, in its loop order
AllWindows == RowWindows \o ColWindows \o DiagWindows \o AntiWindows

EvaluateInit ==
    /\ tt_board \in
          {ThreatBoard(AllWindows[n], gap, who) :
              n \in 1..Len(AllWindows), gap \in 1..4, who \in {1, -1}}
    /\ current_player = -1
    /\ game_over = FALSE
    /\ winner = None
    /\ tt_pc = "idle"
    /\ tt_move = None
    /\ tt_moves = <<>>
    /\ tt_scores = <<>>
    /\ tt_nodes = <<>>
    /\ tt_sel = 0
    /\ tt_iter = 0
    /\ tt_win = [called |-> FALSE, value |-> FALSE]
    /\ HanoiIdle /\ QueensIdle /\ KnightIdle /\ TspIdle /\ VerifyIdle /\ HanoiPlayIdle /\ TicPlayIdle /\ CrossIdle /\ QueensGaIdle /\ TspGaIdle /\ SearchIdle /\ TspPlayIdle

\* score = self.evaluate_board(), as minimax calls it at the depth limit
Evaluate ==
    /\ tt_pc = "idle"
    /\ tt_scores' = <<evaluate_board(tt_board)>>
    /\ tt_pc' = "evaluated"
    /\ UNCHANGED <<tt_board, current_player, game_over, winner, tt_move,
                   tt_moves, tt_nodes, tt_sel, tt_iter, tt_win, notTic>>

EvaluateNext == Evaluate

SpecEvaluate == EvaluateInit /\ [][EvaluateNext]_vars

\* the number of cells of a line that hold v
LineCount(b, line, v) == Cardinality({k \in 0..3 : b[line[k]] = v})

\* the weight of one window by its pattern of marks
PatternWeight(b, line) ==
    IF LineCount(b, line, -1) = 3 /\ LineCount(b, line, 0) = 1 THEN 5
    ELSE IF LineCount(b, line, -1) = 2 /\ LineCount(b, line, 0) = 2 THEN 2
    ELSE IF LineCount(b, line, 1) = 3 /\ LineCount(b, line, 0) = 1 THEN -10
    ELSE IF LineCount(b, line, 1) = 2 /\ LineCount(b, line, 0) = 2 THEN -2
    ELSE 0

RECURSIVE PatternSum(_, _)
PatternSum(b, lines) ==
    IF lines = {} THEN 0
    ELSE LET line == CHOOSE l \in lines : TRUE
         IN  PatternWeight(b, line) + PatternSum(b, lines \ {line})

\* C21: for every board without four in a line, evaluate_board returns the
\* sum of the pattern weights (+5, +2, -10, -2, else 0) over every 4-cell
\* window of the rows, the columns and both diagonal directions.
C21_EvaluateSumsAllWindows ==
    (tt_pc = "evaluated" /\ ~HasFourInLine(tt_board)) =>
        tt_scores[1] = PatternSum(tt_board, FourLines)

-----------------------------------------------------------------------------
(* Tic-Tac-Toe: minimax(0, 3, True, -inf, inf) run statement by statement *)

\* Most empty cells of the board when minimax_move calls minimax.
MaxOpen == 5

\* The empty cells lie among the first cells of the board, row by row.
MaxSearchCells == 10

\* a full board without four in a line: rows XXXOO, OOOXX, XXXOO, ...
DenseBoard ==
    [c \in TicCells |-> IF (c[2] < 3) = (c[1] % 2 = 0) THEN 1 ELSE -1]

SearchCells == {c \in TicCells : c[1] * TicBoardSize + c[2] < MaxSearchCells}

\* the cell numbered n in the order of the two loops
CellAt(n) == <<n \div TicBoardSize, n % TicBoardSize>>

\* the numbers of the empty cells the loops reach from (i, j) on
EmptyFrom(b, i, j) ==
    {n \in (i * TicBoardSize + j)..(TicBoardSize * TicBoardSize - 1) :
        b[CellAt(n)] = 0}

\* the same test made true at once
CutoffAlways(alpha, beta) == TRUE

\* minimax: `if beta <= alpha`
CutoffTest(alpha, beta) == beta <= alpha

\* a call minimax(depth, 3, is_maximizing, alpha, beta) that has not started
NewCall(depth, is_maximizing, alpha, beta) ==
    [depth |-> depth, is_maximizing |-> is_maximizing, alpha |-> alpha,
     beta |-> beta, best_score |-> IF is_maximizing THEN -Inf ELSE Inf,
     i |-> 0, j |-> 0, at |-> "enter", cut |-> FALSE]

\* minimax_move: a position with the computer to move and no four in a line,
\* the move made (`self.board[row, col] = -1`), and minimax called
SearchInit ==
    /\ \E S \in SUBSET SearchCells : \E move \in S :
          /\ Cardinality(S) <= MaxOpen + 1
          /\ Cardinality({c \in TicCells \ S : DenseBoard[c] = 1})
                = Cardinality({c \in TicCells \ S : DenseBoard[c] = -1}) + 1
          /\ s_root = [c \in TicCells |->
                          IF c = move THEN -1
                          ELSE IF c \in S THEN 0 ELSE DenseBoard[c]]
    /\ s_board = s_root
    /\ s_stack = <<NewCall(0, TRUE, -Inf, Inf)>>
    /\ s_ret = 0
    /\ s_cuts = 0
    /\ s_pc = "run"
    /\ HanoiIdle /\ QueensIdle /\ KnightIdle /\ TspIdle /\ TicIdle /\ VerifyIdle /\ HanoiPlayIdle /\ TicPlayIdle /\ CrossIdle /\ QueensGaIdle /\ TspGaIdle /\ TspPlayIdle

\* `return score` of the innermost call: its caller goes on, or the call
\* made by minimax_move has returned
NodeReturn(score) ==
    /\ s_ret' = score
    /\ s_stack' = Front(s_stack)
    /\ s_pc' = IF Len(s_stack) = 1 THEN "done" ELSE "run"
    /\ UNCHANGED <<s_root, s_board, s_cuts>>

\* minimax: the terminal tests at the head of a call
NodeEnter ==
    /\ s_pc = "run"
    /\ Last(s_stack).at = "enter"
    /\ IF check_win_board(s_board)
       THEN NodeReturn(TerminalScore(Last(s_stack).depth,
                                     Last(s_stack).is_maximizing))
       ELSE IF check_draw_board(s_board) \/ Last(s_stack).depth = 3
       THEN NodeReturn(evaluate_board(s_board))
       ELSE /\ s_stack' = [s_stack EXCEPT ![Len(s_stack)].at = "loop"]
            /\ UNCHANGED <<s_root, s_board, s_ret, s_cuts, s_pc>>
    /\ UNCHANGED notSearch

\* minimax: the two loops run on to the next empty cell, mark it and call
\* minimax for it; with no empty cell left, `return best_score`
NodeScan ==
    /\ s_pc = "run"
    /\ Last(s_stack).at = "loop"
    /\ IF EmptyFrom(s_board, Last(s_stack).i, Last(s_stack).j) = {}
       THEN NodeReturn(Last(s_stack).best_score)
       ELSE /\ s_board' =
                  [s_board EXCEPT
                      ![CellAt(Min(EmptyFrom(s_board, Last(s_stack).i,
                                             Last(s_stack).j)))] =
                          IF Last(s_stack).is_maximizing THEN 1 ELSE -1]
            /\ s_stack' =
                  Append([s_stack EXCEPT
                             ![Len(s_stack)].at = "call",
                             ![Len(s_stack)].i =
                                 Min(EmptyFrom(s_board, @, Last(s_stack).j))
                                     \div TicBoardSize,
                             ![Len(s_stack)].j =
                                 Min(EmptyFrom(s_board, Last(s_stack).i, @))
                                     % TicBoardSize],
                         NewCall(Last(s_stack).depth + 1,
                                 ~Last(s_stack).is_maximizing,
                                 Last(s_stack).alpha, Last(s_stack).beta))
            /\ UNCHANGED <<s_root, s_ret, s_cuts, s_pc>>
    /\ UNCHANGED notSearch

\* the caller's record after its child returned `score`: best_score, alpha
\* or beta, and the place the loops go on from; `break` leaves the loop over
\* j, so the loop over i goes on with the next row
Resumed(call, score, best) ==
    [call EXCEPT
        !.best_score = best,
        !.alpha = IF call.is_maximizing THEN Larger(call.alpha, best) ELSE @,
        !.beta = IF call.is_maximizing THEN @ ELSE SmallerDist(call.beta, best),
        !.at = "loop",
        !.cut = @ \/ CutoffTest(
                    IF call.is_maximizing THEN Larger(call.alpha, best)
                    ELSE call.alpha,
                    IF call.is_maximizing THEN call.beta
                    ELSE SmallerDist(call.beta, best)),
        !.i = IF CutoffTest(
                    IF call.is_maximizing THEN Larger(call.alpha, best)
                    ELSE call.alpha,
                    IF call.is_maximizing THEN call.beta
                    ELSE SmallerDist(call.beta, best))
              THEN @ + 1 ELSE @,
        !.j = IF CutoffTest(
                    IF call.is_maximizing THEN Larger(call.alpha, best)
                    ELSE call.alpha,
                    IF call.is_maximizing THEN call.beta
                    ELSE SmallerDist(call.beta, best))
              THEN 0 ELSE @ + 1]

\* minimax: the statements after the recursive call: take the mark back,
\* best_score, alpha or beta, and the cutoff test
NodeResume ==
    /\ s_pc = "run"
    /\ Last(s_stack).at = "call"
    /\ s_board' = [s_board EXCEPT ![<<Last(s_stack).i, Last(s_stack).j>>] = 0]
    /\ s_stack' =
          [s_stack EXCEPT
              ![Len(s_stack)] =
                  Resumed(@, s_ret,
                          IF @.is_maximizing THEN Larger(s_ret, @.best_score)
                          ELSE SmallerDist(@.best_score, s_ret))]
    /\ s_cuts' = IF s_stack'[Len(s_stack)].i # Last(s_stack).i
                 THEN s_cuts + 1 ELSE s_cuts
    /\ UNCHANGED <<s_root, s_ret, s_pc, notSearch>>

SearchNext == NodeEnter \/ NodeScan \/ NodeResume

SpecSearch == SearchInit /\ [][SearchNext]_vars

\* C22: once beta <= alpha has held at a node after one of its children was
\* evaluated, no further child of that node is evaluated: no call of minimax
\* is active below a node that has seen the cutoff.
C22_CutoffSkipsAllRemaining ==
    \A d \in 1..(Len(s_stack) - 1) : ~s_stack[d].cut

\* the depth-3 search without the cutoff tests: every empty cell of every
\* node is searched
RECURSIVE Unpruned(_, _, _)
Unpruned(b, depth, is_maximizing) ==
    IF check_win_board(b) THEN TerminalScore(depth, is_maximizing)
    ELSE IF check_draw_board(b) \/ depth = 3 THEN evaluate_board(b)
    ELSE IF is_maximizing
    THEN Max({Unpruned([b EXCEPT ![c] = 1], depth + 1, FALSE) :
                 c \in {d \in TicCells : b[d] = 0}})
    ELSE Min({Unpruned([b EXCEPT ![c] = -1], depth + 1, TRUE) :
                 c \in {d \in TicCells : b[d] = 0}})

\* C23: for every board and every candidate root move, the score
\* minimax(0, 3, True, -inf, +inf) returns to minimax_move is the score of
\* the same depth-3 search without the cutoff tests.
C23_PruningKeepsRootScore ==
    s_pc = "done" => s_ret = Unpruned(s_root, 0, TRUE)

\* a search that took a cutoff has returned
C23_Witness == s_pc = "done" /\ s_cuts > 0 /\ s_board = s_root

-----------------------------------------------------------------------------
(* Tower of Hanoi: the two solvers against each other *)

\* C25: for every disk count n >= 1, solve_iterative returns the sequence of
\* (source, destination) moves that solve_recursive returns, move for move.
C25_SolversAgree ==
    (h_pc = "done" /\ h_alg = "iterative") =>
        /\ Len(optimal_moves) = Len(solve_recursive(num_disks))
        /\ \A k \in 1..Len(optimal_moves) :
              optimal_moves[k] = solve_recursive(num_disks)[k]

\* solve_iterative has returned for an even and large number of disks
C25_Witness ==
    /\ h_pc = "done" /\ h_alg = "iterative" /\ num_disks = 8
    /\ optimal_moves[1] = <<"A", "B">>

-----------------------------------------------------------------------------
\* Travelling Salesman played through the window: the city checkboxes,
\* find_shortest_route, submit_route and new_game
\* (traveling_salesman_game.py).  Tk runs one handler at a time, so each
\* handler is one step.

\* Most checkboxes ticked at a time, and most cities in a typed route.
MaxTicked == 2

AllCities == {city_names[i] : i \in 1..Len(city_names)}

\* find_shortest_route_nearest_neighbor: `for city in cities` with
\* `if distance < min_distance`: the first city of least distance
NearestCity(cities, current_city) ==
    cities[Min({i \in 1..Len(cities) :
                   \A j \in 1..Len(cities) :
                       get_distance(current_city, cities[i])
                           <= get_distance(current_city, cities[j])})]

\* find_shortest_route_nearest_neighbor: `while cities`, then the way home
RECURSIVE NearestLoop(_, _, _, _)
NearestLoop(cities, current_city, route, total_distance) ==
    IF cities = <<>>
    THEN [route |-> route,
          distance |-> total_distance + get_distance(current_city, home_city)]
    ELSE NearestLoop(
             SelectSeq(cities, LAMBDA c : c # NearestCity(cities, current_city)),
             NearestCity(cities, current_city),
             Append(route, NearestCity(cities, current_city)),
             total_distance
                 + get_distance(current_city, NearestCity(cities, current_city)))

\* find_shortest_route_dynamic_programming, reconstruction: best_city of one
\* pass, -1 when no unvisited city has a value below inf
ReconBest(D, n, dp, mask, at) ==
    IF {c \in 0..(n - 1) :
           ~BitSet(mask, c)
           /\ Plus(D[at][c], DpGet(dp, <<WithBit(mask, c), c>>)) < Inf} = {}
    THEN -1
    ELSE Min({c \in 0..(n - 1) :
                 /\ ~BitSet(mask, c)
                 /\ \A d \in 0..(n - 1) :
                       ~BitSet(mask, d) =>
                           Plus(D[at][c], DpGet(dp, <<WithBit(mask, c), c>>))
                               <= Plus(D[at][d],
                                       DpGet(dp, <<WithBit(mask, d), d>>))})

\* the reconstruction loop `for _ in range(n - 1)`: the path, or the
\* ValueError of `1 << -1`
RECURSIVE ReconLoop(_, _, _, _, _, _, _)
ReconLoop(cities, D, dp, mask, at, round, path) ==
    IF round >= Len(cities) - 1 THEN [raised |-> FALSE, route |-> path]
    ELSE IF ReconBest(D, Len(cities), dp, mask, at) < 0
    THEN [raised |-> TRUE, route |-> path]
    ELSE ReconLoop(cities, D, dp,
                   WithBit(mask, ReconBest(D, Len(cities), dp, mask, at)),
                   ReconBest(D, Len(cities), dp, mask, at), round + 1,
                   Append(path,
                          cities[ReconBest(D, Len(cities), dp, mask, at) + 1]))

\* find_shortest_route_dynamic_programming with the memo r of tsp(1, 0)
DpOutcome(cities, r) ==
    [raised |-> ReconLoop(cities, DistMatrix(cities), r.dp, 1, 0, 0, <<>>).raised,
     route |-> ReconLoop(cities, DistMatrix(cities), r.dp, 1, 0, 0, <<>>).route,
     distance |-> r.val]

\* find_shortest_route after `self.shortest_routes = {}`: the three solvers
\* in turn, each storing its entry; an exception of the second ends the
\* handler with the first entry stored.  The genetic solver returns some
\* ordering of the selection.
RoutesFound(selected, dp) ==
    IF dp.raised
    THEN {[raised |-> TRUE,
           routes |-> "nearest_neighbor" :> NearestLoop(selected, home_city, <<>>, 0)]}
    ELSE {[raised |-> FALSE,
           routes |->
               ("nearest_neighbor" :> NearestLoop(selected, home_city, <<>>, 0))
                 @@ ("dynamic_programming" :>
                        [route |-> dp.route, distance |-> dp.distance])
                 @@ ("genetic_algorithm" :>
                        [route |-> p, distance |-> calculate_route_distance(p)])] :
             p \in Orderings(selected)}

\* the outcomes of find_shortest_route for a non-empty selection
find_shortest_route(selected) ==
    RoutesFound(selected,
                DpOutcome(<<home_city>> \o selected,
                          tsp(DistMatrix(<<home_city>> \o selected),
                              Len(selected) + 1, 1, 0, EmptyDp)))

\* what the stored routes were computed for
Basis(selected) ==
    <<[cities |-> selected, home_city |-> home_city, distances |-> distances]>>

tspSolverVars == <<t_pc, t_cities, t_dp, min_distance, t_path, t_mask, t_pos,
                   t_round>>

TspPlayInit ==
    /\ distances \in
          {SymmetricMatrix(w) :
             w \in {v \in [UpperPairs -> {DistMin, DistMax}] :
                      Cardinality({c \in UpperPairs : v[c] = DistMax}) <= MaxLongLegs}}
    /\ home_city \in AllCities
    /\ selected_cities = <<>>
    /\ shortest_routes = EmptyDp
    /\ t_pc = "off"
    /\ t_cities = <<>>
    /\ t_dp = <<>>
    /\ min_distance = 0
    /\ t_path = <<>>
    /\ t_mask = 0
    /\ t_pos = 0
    /\ t_round = 0
    /\ city_vars = {}
    /\ user_route = <<>>
    /\ tp_basis = <<>>
    /\ tp_event = ""
    /\ HanoiIdle /\ QueensIdle /\ KnightIdle /\ TicIdle /\ VerifyIdle /\ HanoiPlayIdle /\ TicPlayIdle /\ CrossIdle /\ QueensGaIdle /\ TspGaIdle /\ SearchIdle

\* a click on the checkbox of a city
ToggleCity(city) ==
    /\ city \in city_vars \/ Cardinality(city_vars) < MaxTicked
    /\ city_vars' = IF city \in city_vars THEN city_vars \ {city}
                    ELSE city_vars \cup {city}
    /\ tp_event' = "ticked"
    /\ UNCHANGED <<user_route, tp_basis, notTspPlay>>

\* find_shortest_route(): the Find Shortest Route button
FindShortestRoute ==
    /\ selected_cities' = SelectedInOrder(city_vars)
    /\ IF SelectedInOrder(city_vars) = <<>>
       THEN /\ tp_event' = "error"
            /\ UNCHANGED <<shortest_routes, tp_basis>>
       ELSE \E found \in find_shortest_route(SelectedInOrder(city_vars)) :
               /\ shortest_routes' = found.routes
               /\ tp_basis' = Basis(SelectedInOrder(city_vars))
               /\ tp_event' = IF found.raised THEN "raised" ELSE "found"
    /\ UNCHANGED <<distances, home_city, tspSolverVars, city_vars, user_route,
                   notTspWindow>>

\* submit_route: the checks of the typed route that end in an error box
RouteRefused(selected, route) ==
    \/ route = <<>>
    \/ Len(route) # Len(selected)
    \/ \E i \in 1..Len(route) : route[i] \notin SeqRange(selected)
    \/ Cardinality(SeqRange(route)) # Len(route)

\* submit_route(): the Submit Route button with `route` typed in
SubmitRoute(route) ==
    /\ selected_cities' = SelectedInOrder(city_vars)
    /\ IF SelectedInOrder(city_vars) = <<>>
          \/ RouteRefused(SelectedInOrder(city_vars), route)
       THEN /\ tp_event' = "error"
            /\ UNCHANGED <<shortest_routes, tp_basis, user_route>>
       ELSE /\ user_route' = route
            /\ IF DOMAIN shortest_routes = {}
               THEN \E found \in find_shortest_route(SelectedInOrder(city_vars)) :
                       /\ shortest_routes' = found.routes
                       /\ tp_basis' = Basis(SelectedInOrder(city_vars))
                       /\ tp_event' = IF found.raised THEN "error" ELSE "compared"
               ELSE /\ tp_event' = "compared"
                    /\ UNCHANGED <<shortest_routes, tp_basis>>
    /\ UNCHANGED <<distances, home_city, tspSolverVars, city_vars, notTspWindow>>

\* new_game(): the New Game button
TspNewGame ==
    /\ distances' \in
          {SymmetricMatrix(w) :
             w \in {v \in [UpperPairs -> {DistMin, DistMax}] :
                      Cardinality({c \in UpperPairs : v[c] = DistMax}) <= MaxLongLegs}}
    /\ home_city' \in AllCities
    /\ selected_cities' = <<>>
    /\ user_route' = <<>>
    /\ city_vars' = {}
    /\ shortest_routes' = EmptyDp
    /\ tp_basis' = <<>>
    /\ tp_event' = "new"
    /\ UNCHANGED <<tspSolverVars, notTspWindow>>

TspPlayNext ==
    \/ \E city \in AllCities \ {home_city} : ToggleCity(city)
    \/ FindShortestRoute
    \/ \E S \in {T \in SUBSET AllCities : Cardinality(T) <= MaxTicked} :
          \E route \in Orderings(SelectedInOrder(S)) : SubmitRoute(route)
    \/ TspNewGame

SpecTspPlay == TspPlayInit /\ [][TspPlayNext]_vars

\* C28: whenever submit_route compares the user's route with the best stored
\* distance, every entry of shortest_routes was computed for the cities
\* selected now, the home city and the distance matrix of now.
C28_StoredRoutesAreCurrent ==
    tp_event = "compared" =>
        /\ tp_basis # <<>>
        /\ tp_basis = Basis(selected_cities)

=============================================================================
